---- MODULE Spec2Model ----
(***************************************************************************)
(* Model of the report generator: the photo collector, the address         *)
(* extractor, the address-list fill and the two document builds            *)
(* (src/fill_prilozhenie.py, src/fill_ap.py).                               *)
(*                                                                         *)
(* Text is modelled as a sequence of character codes (Unicode code points) *)
(* so that comparisons, case folding and pattern matching are computed as  *)
(* the Python code computes them.  A path is the sequence of its           *)
(* components relative to the scanned folder.                              *)
(***************************************************************************)
EXTENDS Integers, Sequences, FiniteSets, TLC

VARIABLES
    \* ---- collector runs (SpecCollect) ----
    tree,          \* the entries below the scanned folder
    root_exists,   \* whether the scanned folder exists
    flavour,       \* path flavour of the platform: "posix" or "nt"
    listing,       \* what rglob('*') has yielded so far, in file-system order
    photos,        \* result of PrilozhenieFiller._collect_photos
    files_info,    \* result of APFiller.get_all_files_with_subfolders
    cpc,           \* position of the collector run
    \* ---- address extractor runs (SpecAddr) ----
    name,          \* a file name (base name with extension)
    address,       \* result of PrilozhenieFiller._clean_address
    cleaned,       \* result of APFiller.clean_name
    twice,         \* both extractors applied to their own results
    apc,           \* position of the extractor run
    \* ---- report run (Spec) ----
    photo_root,    \* category folder name -> Missing or the folder's tree
    gbu_name,      \* organisation name given by the operator
    app_number,    \* application number given by the operator
    template,      \* the template document: whether it has the style 'Table Grid'
    pc,            \* position of the report run
    ap,            \* address-list workbook: sheet -> rows written by fill_ap
    build,         \* the document build in progress (locals of fill_prilozhenie*)
    saved,         \* output path -> saved document, or NotSaved
    \* ---- the whole run of main (SpecMain) ----
    paths,         \* which of the photo root, templates folder, templates exist
    mpc,           \* position of main
    asked,         \* the kinds of operator input requested so far
    messages,      \* the kinds of message shown to the operator so far
    written,       \* the files created or modified in the working folder
    counts,        \* the integers get_int_input has returned, in key order
    entry,         \* the operator's last entry at a count prompt
    steps,         \* the pipeline steps run so far, each with its outcome
    \* ---- runs over the photo root (SpecRt, SpecRm) ----
    disk,          \* the entries below the photo root
    yielded,       \* what rglob('*') of the running search has yielded so far
    rt,            \* the calculation workbook: its sheets and the cells written
    todo,          \* the items remove_empty_folders has still to visit, in order
    removed_count, \* removed_count of remove_empty_folders
    fpc            \* position of the run over the photo root

vars_collect == <<tree, root_exists, flavour, listing, photos, files_info, cpc>>
vars_addr == <<name, address, cleaned, twice, apc>>
vars_report == <<photo_root, gbu_name, app_number, template, pc, ap, build, saved>>
vars_main == <<paths, mpc, asked, messages, written, counts, entry, steps>>
vars_fs == <<disk, yielded, rt, todo, removed_count, fpc>>
vars == <<vars_collect, vars_addr, vars_report, vars_main, vars_fs>>

(***************************************************************************)
(* Bounds                                                                  *)
(***************************************************************************)
MaxEntries == 3     \* entries of a scanned tree (SpecCollect)
MaxLen == 5         \* length of a generated file stem (SpecAddr)
MaxPhotos == 5      \* photos in one report run (Spec)

(***************************************************************************)
(* Characters                                                              *)
(***************************************************************************)
SP == 32
LPAR == 40
RPAR == 41
DOT == 46
SLASH == 47
USCORE == 95

IsSpace(c) == c \in {9, 10, 11, 12, 13, SP}
IsDigit(c) == c \in 48..57

\* str.lower() on one character: Latin and Cyrillic capitals
LowerChar(c) ==
    IF c \in 65..90 \/ c \in 1040..1071 THEN c + 32 ELSE c

Lower(s) == [i \in 1..Len(s) |-> LowerChar(s[i])]

\* str.replace("_", "/")
ReplaceUnderscore(s) == [i \in 1..Len(s) |-> IF s[i] = USCORE THEN SLASH ELSE s[i]]

\* str.strip(): drop leading and trailing whitespace
RECURSIVE LStrip(_)
LStrip(s) == IF s # <<>> /\ IsSpace(Head(s)) THEN LStrip(Tail(s)) ELSE s

RECURSIVE RStrip(_)
RStrip(s) ==
    IF s # <<>> /\ IsSpace(s[Len(s)]) THEN RStrip(SubSeq(s, 1, Len(s) - 1)) ELSE s

Strip(s) == RStrip(LStrip(s))

(***************************************************************************)
(* pathlib: suffix, stem, comparison of paths                              *)
(***************************************************************************)
\* str.rfind("."), 1-based; 0 when there is no dot
RFindDot(s) ==
    IF \E i \in 1..Len(s) : s[i] = DOT
    THEN CHOOSE i \in 1..Len(s) : s[i] = DOT /\ \A j \in (i+1)..Len(s) : s[j] # DOT
    ELSE 0

\* PurePath.suffix: the last dot and what follows it, unless the dot is the
\* first or the last character of the name
Suffix(n) ==
    LET i == RFindDot(n)
    IN IF 1 < i /\ i < Len(n) THEN SubSeq(n, i, Len(n)) ELSE <<>>

\* PurePath.stem
Stem(n) ==
    LET i == RFindDot(n)
    IN IF 1 < i /\ i < Len(n) THEN SubSeq(n, 1, i - 1) ELSE n

\* Python's < on two strings, and on two lists of strings
StrLess(a, b) ==
    \E k \in 1..(Len(b)) :
        /\ k <= Len(a) + 1
        /\ \A j \in 1..(k-1) : a[j] = b[j]
        /\ (k = Len(a) + 1 \/ a[k] < b[k])

PartsLess(p, q) ==
    \E k \in 1..(Len(q)) :
        /\ k <= Len(p) + 1
        /\ \A j \in 1..(k-1) : p[j] = q[j]
        /\ (k = Len(p) + 1 \/ StrLess(p[k], q[k]))

\* the case-normalised components PurePath compares (_cparts): as they are on
\* POSIX, lower-cased on Windows
CParts(p, fl) == IF fl = "nt" THEN [i \in 1..Len(p) |-> Lower(p[i])] ELSE p

\* str(path): the components joined by the separator
RECURSIVE Join(_, _)
Join(p, sep) ==
    IF p = <<>> THEN <<>>
    ELSE IF Len(p) = 1 THEN p[1]
    ELSE p[1] \o <<sep>> \o Join(Tail(p), sep)

\* mutant: the items are taken as rglob yields them
Unsorted(s, fl) == s

\* mutant: paths compared as plain strings
PathLessAsString(p, q, fl) == StrLess(Join(p, SLASH), Join(q, SLASH))

\* PurePath.__lt__
PathLess(p, q, fl) == PartsLess(CParts(p, fl), CParts(q, fl))

\* sorted(): a stable sort that uses only <
RECURSIVE Insert(_, _, _)
Insert(e, s, fl) ==
    IF s = <<>> THEN <<e>>
    ELSE IF PathLess(e.path, Head(s).path, fl) THEN <<e>> \o s
    ELSE <<Head(s)>> \o Insert(e, Tail(s), fl)

RECURSIVE Sorted(_, _)
Sorted(s, fl) ==
    IF s = <<>> THEN <<>>
    ELSE Insert(s[Len(s)], Sorted(SubSeq(s, 1, Len(s) - 1), fl), fl)

(***************************************************************************)
(* Folder trees.  An entry is [path, kind, ok]: its path below the scanned *)
(* folder, "file" or "dir", and whether an image library can decode it.    *)
(***************************************************************************)
File(p) == [path |-> p, kind |-> "file", ok |-> TRUE]
Dir(p) == [path |-> p, kind |-> "dir", ok |-> FALSE]

\* the entries of a tree are closed under "parent directory"
ParentClosed(t) ==
    \A e \in t : Len(e.path) > 1 =>
        Dir(SubSeq(e.path, 1, Len(e.path) - 1)) \in t

\* Path.rglob('*') yields every entry below the folder, each once, in the
\* order the file system enumerates them; nothing for a folder that does
\* not exist
IsListingOf(ls, t) ==
    /\ Len(ls) = Cardinality(t)
    /\ {ls[i] : i \in 1..Len(ls)} = t

\* a fixed enumeration of a tree, where the order is immaterial
RECURSIVE SomeListing(_)
SomeListing(t) ==
    IF t = {} THEN <<>>
    ELSE LET e == CHOOSE x \in t : TRUE IN <<e>> \o SomeListing(t \ {e})

(***************************************************************************)
(* The collectors                                                          *)
(***************************************************************************)
\* EXTENSIONS = {'.jpg', '.jpeg', '.png', '.bmp', '.gif', '.tiff'}
EXTENSIONS ==
    { <<46, 106, 112, 103>>, <<46, 106, 112, 101, 103>>, <<46, 112, 110, 103>>,
      <<46, 98, 109, 112>>, <<46, 103, 105, 102>>, <<46, 116, 105, 102, 102>> }

ItemName(e) == e.path[Len(e.path)]

\* mutant: the kind of the entry is not looked at
IsPhotoItemOfAnyKind(e) == Lower(Suffix(ItemName(e))) \in EXTENSIONS

\* item.is_file() and item.suffix.lower() in self.EXTENSIONS
IsPhotoItem(e) == e.kind = "file" /\ Lower(Suffix(ItemName(e))) \in EXTENSIONS

\* mutant: the name of the folder's child the item lies in or under
ParentNameTopLevel(e, rootName) ==
    IF Len(e.path) = 1 THEN rootName ELSE e.path[1]

\* item.parent.name, for an item below the folder named rootName
ParentName(e, rootName) ==
    IF Len(e.path) = 1 THEN rootName ELSE e.path[Len(e.path) - 1]

RECURSIVE SelectPhotos(_)
SelectPhotos(s) ==
    IF s = <<>> THEN <<>>
    ELSE IF IsPhotoItem(Head(s)) THEN <<Head(s)>> \o SelectPhotos(Tail(s))
    ELSE SelectPhotos(Tail(s))

\* PrilozhenieFiller._collect_photos(root), ls being what root.rglob('*') yields
CollectPhotos(rootName, ls, fl) ==
    LET items == SelectPhotos(Sorted(ls, fl))
    IN [i \in 1..Len(items) |->
          [path |-> items[i].path,
           subfolder |-> Strip(ParentName(items[i], rootName))]]

\* APFiller.get_all_files_with_subfolders(folder_path)
GetAllFilesWithSubfolders(rootName, exists, ls, fl) ==
    IF ~exists THEN <<>>
    ELSE LET items == SelectPhotos(Sorted(ls, fl))
         IN [i \in 1..Len(items) |->
               [filename |-> ItemName(items[i]),
                subfolder |-> ParentName(items[i], rootName)]]

(***************************************************************************)
(* The address extractor                                                   *)
(***************************************************************************)
\* the pattern \s*\(\d+\)$ matches s from position p on
MatchesAt(s, p) ==
    \E q \in p..Len(s) :
        /\ \A j \in p..(q - 1) : IsSpace(s[j])
        /\ s[q] = LPAR
        /\ q + 2 <= Len(s)
        /\ \A j \in (q + 1)..(Len(s) - 1) : IsDigit(s[j])
        /\ s[Len(s)] = RPAR

\* mutant: the pattern without \s*, the parenthesised number alone is removed
SubSuffixKeepingSpace(s) ==
    IF \E p \in 1..Len(s) : MatchesAt(s, p) /\ s[p] = LPAR
    THEN LET p == CHOOSE r \in 1..Len(s) : MatchesAt(s, r) /\ s[r] = LPAR
         IN SubSeq(s, 1, p - 1)
    ELSE s

\* re.sub(r"\s*\(\d+\)$", "", s): the leftmost match is removed; the pattern
\* is anchored at the end, so there is at most one
SubSuffix(s) ==
    IF \E p \in 1..Len(s) : MatchesAt(s, p)
    THEN LET p == CHOOSE r \in 1..Len(s) :
                      MatchesAt(s, r) /\ \A j \in 1..(r - 1) : ~MatchesAt(s, j)
         IN SubSeq(s, 1, p - 1)
    ELSE s

\* the two statements of _clean_address on a base name: the extension is
\* already off
AddressOfBaseName(s) == ReplaceUnderscore(SubSuffix(s))

\* the statement of clean_name after Path(name).stem
NameOfBaseName(s) == Strip(ReplaceUnderscore(SubSuffix(s)))

\* PrilozhenieFiller._clean_address(path)
CleanAddress(path) == ReplaceUnderscore(SubSuffix(Stem(path[Len(path)])))

\* APFiller.clean_name(name)
CleanName(filename) == Strip(ReplaceUnderscore(SubSuffix(Stem(filename))))

(***************************************************************************)
(* Collector runs: one folder, scanned by either collector                 *)
(***************************************************************************)
JPG == <<46, 106, 112, 103>>

\* "1. DT" with the Cyrillic letters De and Te: the first category folder
RootName == <<49, 46, 32, 1044, 1058>>

\* the entries a scanned tree is drawn from: a.jpg, B.JPG, c.txt, .jpg, the
\* folder a with a/x.jpg, the folder C.png with C.png/x.jpeg, the folder a/d
\* with a/d/z.gif
CandidateEntries ==
    { File(<< <<97>> \o JPG >>),
      File(<< <<66, 46, 74, 80, 71>> >>),
      File(<< <<99, 46, 116, 120, 116>> >>),
      File(<< JPG >>),
      Dir(<< <<97>> >>),
      File(<< <<97>>, <<120>> \o JPG >>),
      Dir(<< <<67, 46, 112, 110, 103>> >>),
      File(<< <<67, 46, 112, 110, 103>>, <<120, 46, 106, 112, 101, 103>> >>),
      Dir(<< <<97>>, <<100>> >>),
      File(<< <<97>>, <<100>>, <<122, 46, 103, 105, 102>> >>) }

Trees ==
    { t \in SUBSET CandidateEntries : Cardinality(t) <= MaxEntries /\ ParentClosed(t) }

Range(s) == {s[i] : i \in 1..Len(s)}

CollectIdle ==
    /\ tree = {} /\ root_exists = FALSE /\ flavour = "posix"
    /\ listing = <<>> /\ photos = <<>> /\ files_info = <<>> /\ cpc = "off"

NotApplied == [address |-> <<>>, cleaned |-> <<>>]

AddrIdle ==
    /\ name = <<>> /\ address = <<>> /\ cleaned = <<>>
    /\ twice = NotApplied /\ apc = "off"

NoEntry == <<>>

MainIdle ==
    /\ paths = [photo_root |-> FALSE, templates_dir |-> FALSE,
                rt |-> FALSE, ap |-> FALSE, prilozhenie |-> FALSE]
    /\ mpc = "off" /\ asked = {} /\ messages = {} /\ written = {}
    /\ counts = <<>> /\ entry = NoEntry /\ steps = <<>>

FsIdle ==
    /\ disk = {} /\ yielded = {} /\ todo = <<>> /\ removed_count = 0
    /\ rt = [sheets |-> {}, cells |-> <<>>, at |-> 0]
    /\ fpc = "off"

\* root.rglob('*') yields the next entry
RglobYield ==
    /\ cpc = "rglob"
    /\ \E e \in tree \ Range(listing) : listing' = Append(listing, e)
    /\ UNCHANGED <<tree, root_exists, flavour, photos, files_info, cpc>>
    /\ UNCHANGED <<vars_addr, vars_report, vars_main, vars_fs>>

\* _collect_photos returns
CollectPhotosCall ==
    /\ cpc = "rglob"
    /\ IsListingOf(listing, tree)
    /\ photos' = CollectPhotos(RootName, listing, flavour)
    /\ cpc' = "collected"
    /\ UNCHANGED <<tree, root_exists, flavour, listing, files_info>>
    /\ UNCHANGED <<vars_addr, vars_report, vars_main, vars_fs>>

\* get_all_files_with_subfolders returns
GetAllFilesCall ==
    /\ cpc = "rglob"
    /\ IsListingOf(listing, tree)
    /\ files_info' = GetAllFilesWithSubfolders(RootName, root_exists, listing, flavour)
    /\ cpc' = "got_files"
    /\ UNCHANGED <<tree, root_exists, flavour, listing, photos>>
    /\ UNCHANGED <<vars_addr, vars_report, vars_main, vars_fs>>

(***************************************************************************)
(* The violation catalog: VIOLATION_MAP, each entry the character codes of *)
(* its key and of its text, in the order of the source.                    *)
(***************************************************************************)
Entry(k, t) == [key |-> k, text |-> t]

VIOLATION_MAP ==
    { \* line 35
      Entry(
        <<49, 46, 32, 1055, 1088, 1086, 1077, 1079, 1076, 32, 1040,
          1041, 1055>>,
        <<1083, 1086, 1082, 1072, 1083, 1100, 1085, 1099, 1077, 32,
          1088, 1072, 1079, 1088, 1091, 1096, 1077, 1085, 1080, 1103,
          32, 1085, 1072, 32, 1087, 1088, 1086, 1077, 1079, 1076,
          1072, 1093>>),
      \* line 36
      Entry(
        <<50, 46, 32, 1044, 1058, 1057, 32, 1040, 1041, 1055>>,
        <<1083, 1086, 1082, 1072, 1083, 1100, 1085, 1099, 1077, 32,
          1088, 1072, 1079, 1088, 1091, 1096, 1077, 1085, 1080, 1103,
          32, 1085, 1072, 32, 1044, 1058, 1057>>),
      \* line 37
      Entry(
        <<51, 46, 32, 1041, 1086, 1088, 1090, 32, 1040, 1041, 1055>>,
        <<1083, 1086, 1082, 1072, 1083, 1100, 1085, 1099, 1077, 32,
          1088, 1072, 1079, 1088, 1091, 1096, 1077, 1085, 1080, 1103,
          32, 1073, 1086, 1088, 1090, 1086, 1074, 1086, 1075, 1086,
          32, 1082, 1072, 1084, 1085, 1103>>),
      \* line 38
      Entry(
        <<52, 46, 32, 1048, 1044, 1053, 32, 1040, 1041, 1055>>,
        <<1085, 1077, 1091, 1076, 1086, 1074, 1083, 1077, 1090, 1074,
          1086, 1088, 1080, 1090, 1077, 1083, 1100, 1085, 1086, 1077,
          32, 1089, 1086, 1089, 1090, 1086, 1103, 1085, 1080, 1077,
          32, 1048, 1044, 1053>>),
      \* line 39
      Entry(
        <<53, 46, 32, 1055, 1086, 1076, 1087, 1086, 1088, 1082, 1072,
          32, 1040, 1041, 1055>>,
        <<1085, 1077, 1091, 1076, 1086, 1074, 1083, 1077, 1090, 1074,
          1086, 1088, 1080, 1090, 1077, 1083, 1100, 1085, 1086, 1077,
          32, 1089, 1086, 1089, 1090, 1086, 1103, 1085, 1080, 1077,
          32, 1087, 1086, 1076, 1087, 1086, 1088, 1085, 1086, 1081,
          32, 1089, 1090, 1077, 1085, 1099>>),
      \* line 40
      Entry(
        <<54, 46, 32, 1057, 1072, 1085, 1080, 1090, 1072, 1088, 1082,
          1072, 32, 1040, 1041, 1055>>,
        <<1085, 1077, 32, 1091, 1073, 1088, 1072, 1085, 1072, 44, 32,
          1085, 1077, 32, 1086, 1095, 1080, 1097, 1077, 1085, 1072,
          32, 1090, 1077, 1088, 1088, 1080, 1090, 1086, 1088, 1080,
          1103>>),
      \* line 41
      Entry(
        <<49, 46, 32, 1055, 1086, 1082, 1088, 1099, 1090, 1080, 1077,
          32, 1044, 1055>>,
        <<1085, 1077, 1091, 1076, 1086, 1074, 1083, 1077, 1090, 1074,
          1086, 1088, 1080, 1090, 1077, 1083, 1100, 1085, 1086, 1077,
          32, 1089, 1086, 1089, 1090, 1086, 1103, 1085, 1080, 1077,
          32, 1087, 1086, 1082, 1088, 1099, 1090, 1080, 1103, 32,
          1044, 1055>>),
      \* line 42
      Entry(
        <<50, 46, 32, 1052, 1040, 1060, 32, 1044, 1055>>,
        <<1085, 1077, 1091, 1076, 1086, 1074, 1083, 1077, 1090, 1074,
          1086, 1088, 1080, 1090, 1077, 1083, 1100, 1085, 1086, 1077,
          32, 1089, 1086, 1089, 1090, 1086, 1103, 1085, 1080, 1077,
          32, 1052, 1040, 1060, 32, 1085, 1072, 32, 1044, 1055>>),
      \* line 43
      Entry(
        <<51, 46, 32, 1058, 1072, 1073, 1083, 1080, 1095, 1082, 1072,
          32, 1044, 1055>>,
        <<1086, 1090, 1089, 1091, 1090, 1089, 1090, 1074, 1091, 1077,
          1090, 32, 1080, 1085, 1092, 1086, 1088, 1084, 1072, 1094,
          1080, 1086, 1085, 1085, 1072, 1103, 32, 1090, 1072, 1073,
          1083, 1080, 1095, 1082, 1072, 32, 1085, 1072, 32, 1044,
          1055>>),
      \* line 44
      Entry(
        <<52, 46, 32, 1057, 1072, 1085, 1080, 1090, 1072, 1088, 1082,
          1072, 32, 1044, 1055>>,
        <<1085, 1077, 32, 1091, 1073, 1088, 1072, 1085, 1072, 44, 32,
          1085, 1077, 32, 1086, 1095, 1080, 1097, 1077, 1085, 1072,
          32, 1090, 1077, 1088, 1088, 1080, 1090, 1086, 1088, 1080,
          1103, 32, 1085, 1072, 32, 1044, 1055>>),
      \* line 45
      Entry(
        <<49, 46, 32, 1055, 1086, 1082, 1088, 1099, 1090, 1080, 1077,
          32, 1057, 1055>>,
        <<1085, 1077, 1091, 1076, 1086, 1074, 1083, 1077, 1090, 1074,
          1086, 1088, 1080, 1090, 1077, 1083, 1100, 1085, 1086, 1077,
          32, 1089, 1086, 1089, 1090, 1086, 1103, 1085, 1080, 1077,
          32, 1087, 1086, 1082, 1088, 1099, 1090, 1080, 1103, 32,
          1057, 1055>>),
      \* line 46
      Entry(
        <<50, 46, 32, 1052, 1040, 1060, 32, 1057, 1055>>,
        <<1085, 1077, 1091, 1076, 1086, 1074, 1083, 1077, 1090, 1074,
          1086, 1088, 1080, 1090, 1077, 1083, 1100, 1085, 1086, 1077,
          32, 1089, 1086, 1089, 1090, 1086, 1103, 1085, 1080, 1077,
          32, 1052, 1040, 1060, 32, 1085, 1072, 32, 1057, 1055>>),
      \* line 47
      Entry(
        <<51, 46, 32, 1058, 1072, 1073, 1083, 1080, 1095, 1082, 1072,
          32, 1057, 1055>>,
        <<1086, 1090, 1089, 1091, 1090, 1089, 1090, 1074, 1091, 1077,
          1090, 32, 1080, 1085, 1092, 1086, 1088, 1084, 1072, 1094,
          1080, 1086, 1085, 1085, 1072, 1103, 32, 1090, 1072, 1073,
          1083, 1080, 1095, 1082, 1072, 32, 1085, 1072, 32, 1057,
          1055>>),
      \* line 48
      Entry(
        <<52, 46, 32, 1057, 1072, 1085, 1080, 1090, 1072, 1088, 1082,
          1072, 32, 1057, 1055>>,
        <<1085, 1077, 32, 1091, 1073, 1088, 1072, 1085, 1072, 44, 32,
          1085, 1077, 32, 1086, 1095, 1080, 1097, 1077, 1085, 1072,
          32, 1090, 1077, 1088, 1088, 1080, 1090, 1086, 1088, 1080,
          1103, 32, 1085, 1072, 32, 1057, 1055>>),
      \* line 49
      Entry(
        <<52, 46, 32, 1050, 1055>>,
        <<1085, 1077, 1091, 1076, 1086, 1074, 1083, 1077, 1090, 1074,
          1086, 1088, 1080, 1090, 1077, 1083, 1100, 1085, 1086, 1077,
          32, 1089, 1086, 1089, 1090, 1086, 1103, 1085, 1080, 1077,
          32, 1050, 1055>>),
      \* line 50
      Entry(
        <<53, 46, 32, 1052, 1040, 1060, 32, 1044, 1058>>,
        <<1085, 1077, 1091, 1076, 1086, 1074, 1083, 1077, 1090, 1074,
          1086, 1088, 1080, 1090, 1077, 1083, 1100, 1085, 1086, 1077,
          32, 1089, 1086, 1089, 1090, 1086, 1103, 1085, 1080, 1077,
          32, 1052, 1040, 1060, 32, 1085, 1072, 32, 1044, 1058>>),
      \* line 51
      Entry(
        <<54, 46, 32, 1043, 1072, 1079, 1086, 1085>>,
        <<1085, 1077, 1091, 1076, 1086, 1074, 1083, 1077, 1090, 1074,
          1086, 1088, 1080, 1090, 1077, 1083, 1100, 1085, 1086, 1077,
          32, 1089, 1086, 1089, 1090, 1086, 1103, 1085, 1080, 1077,
          32, 1075, 1072, 1079, 1086, 1085, 1072, 32, 1080, 32, 1079,
          1077, 1083, 1077, 1085, 1099, 1093, 32, 1085, 1072, 1089,
          1072, 1078, 1076, 1077, 1085, 1080, 1081>>),
      \* line 52
      Entry(
        <<49, 46, 32, 1058, 1077, 1093>>,
        <<1085, 1077, 1091, 1076, 1086, 1074, 1083, 1077, 1090, 1074,
          1086, 1088, 1080, 1090, 1077, 1083, 1100, 1085, 1086, 1077,
          32, 1090, 1077, 1093, 1085, 1080, 1095, 1077, 1089, 1082,
          1086, 1077, 32, 1089, 1086, 1089, 1090, 1086, 1103, 1085,
          1080, 1077, 32, 1074, 1093, 1086, 1076, 1085, 1086, 1081,
          32, 1075, 1088, 1091, 1087, 1087, 1099>>),
      \* line 53
      Entry(
        <<50, 46, 32, 1057, 1072, 1085>>,
        <<1085, 1077, 1091, 1076, 1086, 1074, 1083, 1077, 1090, 1074,
          1086, 1088, 1080, 1090, 1077, 1083, 1100, 1085, 1086, 1077,
          32, 1089, 1072, 1085, 1080, 1090, 1072, 1088, 1085, 1086,
          1077, 32, 1089, 1086, 1089, 1090, 1086, 1103, 1085, 1080,
          1077, 32, 1074, 1093, 1086, 1076, 1085, 1086, 1081, 32,
          1075, 1088, 1091, 1087, 1087, 1099>>),
      \* line 54
      Entry(
        <<50, 46, 32, 1054, 1090, 1084, 1086, 1089, 1090, 1082, 1072>>,
        <<1085, 1077, 1091, 1076, 1086, 1074, 1083, 1077, 1090, 1074,
          1086, 1088, 1080, 1090, 1077, 1083, 1100, 1085, 1086, 1077,
          32, 1089, 1086, 1089, 1090, 1086, 1103, 1085, 1080, 1077,
          32, 1086, 1090, 1084, 1086, 1089, 1090, 1082, 1080>>),
      \* line 55
      Entry(
        <<51, 46, 32, 1062, 1086, 1082, 1086, 1083, 1100>>,
        <<1085, 1077, 1091, 1076, 1086, 1074, 1083, 1077, 1090, 1074,
          1086, 1088, 1080, 1090, 1077, 1083, 1100, 1085, 1086, 1077,
          32, 1089, 1086, 1089, 1090, 1086, 1103, 1085, 1080, 1077,
          32, 1094, 1086, 1082, 1086, 1083, 1103>>),
      \* line 56
      Entry(
        <<52, 46, 32, 1051, 1080, 1074, 1085, 1077, 1074, 1082, 1072>>,
        <<1085, 1077, 1091, 1076, 1086, 1074, 1083, 1077, 1090, 1074,
          1086, 1088, 1080, 1090, 1077, 1083, 1100, 1085, 1086, 1077,
          32, 1089, 1086, 1089, 1090, 1086, 1103, 1085, 1080, 1077,
          32, 1083, 1080, 1074, 1085, 1077, 1074, 1099, 1093, 32,
          1089, 1090, 1086, 1082, 1086, 1074>>),
      \* line 57
      Entry(
        <<53, 46, 32, 1053, 1072, 1076, 1087, 1080, 1089, 1080>>,
        <<1085, 1072, 1082, 1083, 1077, 1081, 1082, 1080, 44, 32,
          1085, 1072, 1076, 1087, 1080, 1089, 1080, 32, 1085, 1072,
          32, 1092, 1072, 1089, 1072, 1076, 1077, 32, 1079, 1076,
          1072, 1085, 1080, 1103>>),
      \* line 58
      Entry(
        <<54, 46, 32, 1057, 1086, 1089, 1091, 1083, 1100, 1082, 1080>>,
        <<1085, 1072, 1083, 1080, 1095, 1080, 1077, 32, 1089, 1085,
          1077, 1078, 1085, 1099, 1093, 32, 1084, 1072, 1089, 1089,
          32, 1080, 32, 1089, 1086, 1089, 1091, 1083, 1077, 1082, 32,
          1085, 1072, 32, 1082, 1088, 1086, 1074, 1083, 1103, 1093,
          32, 1080, 32, 1074, 1099, 1089, 1090, 1091, 1087, 1072,
          1102, 1097, 1080, 1093, 32, 1101, 1083, 1077, 1084, 1077,
          1085, 1090, 1072, 1093, 32, 1092, 1072, 1089, 1072, 1076,
          1086, 1074, 32, 1079, 1076, 1072, 1085, 1080, 1081>>),
      \* line 59
      Entry(
        <<49, 46, 32, 1055, 1088, 1086, 1077, 1079, 1076, 32, 1054,
          1044, 1061>>,
        <<1083, 1086, 1082, 1072, 1083, 1100, 1085, 1099, 1077, 32,
          1088, 1072, 1079, 1088, 1091, 1096, 1077, 1085, 1080, 1103,
          32, 1085, 1072, 32, 1087, 1088, 1086, 1077, 1079, 1076,
          1072, 1093>>),
      \* line 60
      Entry(
        <<50, 46, 32, 1058, 1088, 1086, 1090, 1091, 1072, 1088, 32,
          1054, 1044, 1061>>,
        <<1083, 1086, 1082, 1072, 1083, 1100, 1085, 1099, 1077, 32,
          1088, 1072, 1079, 1088, 1091, 1096, 1077, 1085, 1080, 1103,
          32, 1085, 1072, 32, 1090, 1088, 1086, 1090, 1091, 1072,
          1088, 1072, 1093>>),
      \* line 61
      Entry(
        <<51, 46, 32, 1041, 1086, 1088, 1090, 32, 1054, 1044, 1061>>,
        <<1083, 1086, 1082, 1072, 1083, 1100, 1085, 1099, 1077, 32,
          1088, 1072, 1079, 1088, 1091, 1096, 1077, 1085, 1080, 1103,
          32, 1073, 1086, 1088, 1090, 1086, 1074, 1086, 1075, 1086,
          32, 1082, 1072, 1084, 1085, 1103>>),
      \* line 62
      Entry(
        <<52, 46, 32, 1048, 1044, 1053, 32, 1054, 1044, 1061>>,
        <<1085, 1077, 1091, 1076, 1086, 1074, 1083, 1077, 1090, 1074,
          1086, 1088, 1080, 1090, 1077, 1083, 1100, 1085, 1086, 1077,
          32, 1089, 1086, 1089, 1090, 1086, 1103, 1085, 1080, 1077,
          32, 1048, 1044, 1053>>),
      \* line 63
      Entry(
        <<53, 46, 32, 1057, 1072, 1085, 1080, 1090, 1072, 1088, 1082,
          1072, 32, 1054, 1044, 1061>>,
        <<1085, 1077, 32, 1091, 1073, 1088, 1072, 1085, 1072, 44, 32,
          1085, 1077, 32, 1086, 1095, 1080, 1097, 1077, 1085, 1072,
          32, 1090, 1077, 1088, 1088, 1080, 1090, 1086, 1088, 1080,
          1103>>),
      \* line 64
      Entry(
        <<50, 46, 32, 1058, 1077, 1093, 32, 1086, 1075, 1088, 1072,
          1078, 1076, 1077, 1085, 1080, 1103>>,
        <<1085, 1077, 1091, 1076, 1086, 1074, 1083, 1077, 1090, 1074,
          1086, 1088, 1080, 1090, 1077, 1083, 1100, 1085, 1086, 1077,
          32, 1090, 1077, 1093, 1085, 1080, 1095, 1077, 1089, 1082,
          1086, 1077, 32, 1089, 1086, 1089, 1090, 1086, 1103, 1085,
          1080, 1077, 32, 1086, 1075, 1088, 1072, 1078, 1076, 1077,
          1085, 1080, 1081>>),
      \* line 65
      Entry(
        <<51, 46, 32, 1057, 1072, 1085, 32, 1086, 1075, 1088, 1072,
          1078, 1076, 1077, 1085, 1080, 1103>>,
        <<1085, 1077, 1091, 1076, 1086, 1074, 1083, 1077, 1090, 1074,
          1086, 1088, 1080, 1090, 1077, 1083, 1100, 1085, 1086, 1077,
          32, 1089, 1072, 1085, 1080, 1090, 1072, 1088, 1085, 1086,
          1077, 32, 1089, 1086, 1089, 1090, 1086, 1103, 1085, 1080,
          1077, 32, 1086, 1075, 1088, 1072, 1078, 1076, 1077, 1085,
          1080, 1081>>),
      \* line 66
      Entry(
        <<52, 46, 32, 1057, 1072, 1085, 32, 1076, 1086, 1088, 1086,
          1078, 1085, 1099, 1077, 32, 1079, 1085, 1072, 1082, 1080>>,
        <<1085, 1077, 1091, 1076, 1086, 1074, 1083, 1077, 1090, 1074,
          1086, 1088, 1080, 1090, 1077, 1083, 1100, 1085, 1086, 1077,
          32, 1089, 1072, 1085, 1080, 1090, 1072, 1088, 1085, 1086,
          1077, 32, 1089, 1086, 1089, 1090, 1086, 1103, 1085, 1080,
          1077, 32, 1076, 1086, 1088, 1086, 1078, 1085, 1099, 1093,
          32, 1079, 1085, 1072, 1082, 1086, 1074>>),
      \* line 67
      Entry(
        <<53, 46, 32, 1052, 1040, 1060, 32, 1054, 1044, 1061>>,
        <<1085, 1077, 1091, 1076, 1086, 1074, 1083, 1077, 1090, 1074,
          1086, 1088, 1080, 1090, 1077, 1083, 1100, 1085, 1086, 1077,
          32, 1089, 1086, 1089, 1090, 1086, 1103, 1085, 1080, 1077,
          32, 1052, 1040, 1060, 32, 1085, 1072, 32, 1054, 1044, 1061>>),
      \* line 68
      Entry(
        <<49, 46, 32, 1055, 1088, 1086, 1077, 1079, 1076, 32, 1054,
          1054>>,
        <<1083, 1086, 1082, 1072, 1083, 1100, 1085, 1099, 1077, 32,
          1088, 1072, 1079, 1088, 1091, 1096, 1077, 1085, 1080, 1103,
          32, 1085, 1072, 32, 1087, 1088, 1086, 1077, 1079, 1076,
          1072, 1093>>),
      \* line 69
      Entry(
        <<50, 46, 32, 1044, 1058, 1057, 32, 1054, 1054>>,
        <<1083, 1086, 1082, 1072, 1083, 1100, 1085, 1099, 1077, 32,
          1088, 1072, 1079, 1088, 1091, 1096, 1077, 1085, 1080, 1103,
          32, 1085, 1072, 32, 1044, 1058, 1057>>),
      \* line 70
      Entry(
        <<51, 46, 32, 1041, 1086, 1088, 1090, 32, 1054, 1054>>,
        <<1083, 1086, 1082, 1072, 1083, 1100, 1085, 1099, 1077, 32,
          1088, 1072, 1079, 1088, 1091, 1096, 1077, 1085, 1080, 1103,
          32, 1073, 1086, 1088, 1090, 1086, 1074, 1086, 1075, 1086,
          32, 1082, 1072, 1084, 1085, 1103>>),
      \* line 71
      Entry(
        <<52, 46, 32, 1048, 1044, 1053, 32, 1054, 1054>>,
        <<1085, 1077, 1091, 1076, 1086, 1074, 1083, 1077, 1090, 1074,
          1086, 1088, 1080, 1090, 1077, 1083, 1100, 1085, 1086, 1077,
          32, 1089, 1086, 1089, 1090, 1086, 1103, 1085, 1080, 1077,
          32, 1048, 1044, 1053>>),
      \* line 72
      Entry(
        <<53, 46, 32, 1055, 1086, 1076, 1087, 1086, 1088, 1082, 1072,
          32, 1054, 1054>>,
        <<1085, 1077, 1091, 1076, 1086, 1074, 1083, 1077, 1090, 1074,
          1086, 1088, 1080, 1090, 1077, 1083, 1100, 1085, 1086, 1077,
          32, 1089, 1086, 1089, 1090, 1086, 1103, 1085, 1080, 1077,
          32, 1087, 1086, 1076, 1087, 1086, 1088, 1085, 1086, 1081,
          32, 1089, 1090, 1077, 1085, 1099>>),
      \* line 73
      Entry(
        <<54, 46, 32, 1057, 1072, 1085, 1080, 1090, 1072, 1088, 1082,
          1072, 32, 1054, 1054>>,
        <<1085, 1077, 32, 1091, 1073, 1088, 1072, 1085, 1072, 44, 32,
          1085, 1077, 32, 1086, 1095, 1080, 1097, 1077, 1085, 1072,
          32, 1090, 1077, 1088, 1088, 1080, 1090, 1086, 1088, 1080,
          1103>>),
      \* line 74
      Entry(
        <<49, 46, 32, 1055, 1086, 1082, 1088, 1099, 1090, 1080, 1077,
          32, 1054, 1054, 32, 1044, 1055>>,
        <<1085, 1077, 1091, 1076, 1086, 1074, 1083, 1077, 1090, 1074,
          1086, 1088, 1080, 1090, 1077, 1083, 1100, 1085, 1086, 1077,
          32, 1089, 1086, 1089, 1090, 1086, 1103, 1085, 1080, 1077,
          32, 1087, 1086, 1082, 1088, 1099, 1090, 1080, 1103, 32,
          1044, 1055>>),
      \* line 75
      Entry(
        <<50, 46, 32, 1052, 1040, 1060, 32, 1054, 1054, 32, 1044,
          1055>>,
        <<1085, 1077, 1091, 1076, 1086, 1074, 1083, 1077, 1090, 1074,
          1086, 1088, 1080, 1090, 1077, 1083, 1100, 1085, 1086, 1077,
          32, 1089, 1086, 1089, 1090, 1086, 1103, 1085, 1080, 1077,
          32, 1052, 1040, 1060, 32, 1085, 1072, 32, 1044, 1055>>),
      \* line 76
      Entry(
        <<51, 46, 32, 1058, 1072, 1073, 1083, 1080, 1095, 1082, 1072,
          32, 1054, 1054, 32, 1044, 1055>>,
        <<1086, 1090, 1089, 1091, 1090, 1089, 1090, 1074, 1091, 1077,
          1090, 32, 1080, 1085, 1092, 1086, 1088, 1084, 1072, 1094,
          1080, 1086, 1085, 1085, 1072, 1103, 32, 1090, 1072, 1073,
          1083, 1080, 1095, 1082, 1072, 32, 1085, 1072, 32, 1044,
          1055>>),
      \* line 77
      Entry(
        <<52, 46, 32, 1057, 1072, 1085, 1080, 1090, 1072, 1088, 1082,
          1072, 32, 1054, 1054, 32, 1044, 1055>>,
        <<1085, 1077, 32, 1091, 1073, 1088, 1072, 1085, 1072, 44, 32,
          1085, 1077, 32, 1086, 1095, 1080, 1097, 1077, 1085, 1072,
          32, 1090, 1077, 1088, 1088, 1080, 1090, 1086, 1088, 1080,
          1103, 32, 1085, 1072, 32, 1044, 1055>>),
      \* line 78
      Entry(
        <<49, 46, 32, 1055, 1086, 1082, 1088, 1099, 1090, 1080, 1077,
          32, 1054, 1054, 32, 1057, 1055>>,
        <<1085, 1077, 1091, 1076, 1086, 1074, 1083, 1077, 1090, 1074,
          1086, 1088, 1080, 1090, 1077, 1083, 1100, 1085, 1086, 1077,
          32, 1089, 1086, 1089, 1090, 1086, 1103, 1085, 1080, 1077,
          32, 1087, 1086, 1082, 1088, 1099, 1090, 1080, 1103, 32,
          1057, 1055>>),
      \* line 79
      Entry(
        <<50, 46, 32, 1052, 1040, 1060, 32, 1054, 1054, 32, 1057,
          1055>>,
        <<1085, 1077, 1091, 1076, 1086, 1074, 1083, 1077, 1090, 1074,
          1086, 1088, 1080, 1090, 1077, 1083, 1100, 1085, 1086, 1077,
          32, 1089, 1086, 1089, 1090, 1086, 1103, 1085, 1080, 1077,
          32, 1052, 1040, 1060, 32, 1085, 1072, 32, 1057, 1055>>),
      \* line 80
      Entry(
        <<51, 46, 32, 1058, 1072, 1073, 1083, 1080, 1095, 1082, 1072,
          32, 1054, 1054, 32, 1057, 1055>>,
        <<1086, 1090, 1089, 1091, 1090, 1089, 1090, 1074, 1091, 1077,
          1090, 32, 1080, 1085, 1092, 1086, 1088, 1084, 1072, 1094,
          1080, 1086, 1085, 1085, 1072, 1103, 32, 1090, 1072, 1073,
          1083, 1080, 1095, 1082, 1072, 32, 1085, 1072, 32, 1057,
          1055>>),
      \* line 81
      Entry(
        <<52, 46, 32, 1057, 1072, 1085, 1080, 1090, 1072, 1088, 1082,
          1072, 32, 1054, 1054, 32, 1057, 1055>>,
        <<1085, 1077, 32, 1091, 1073, 1088, 1072, 1085, 1072, 44, 32,
          1085, 1077, 32, 1086, 1095, 1080, 1097, 1077, 1085, 1072,
          32, 1090, 1077, 1088, 1088, 1080, 1090, 1086, 1088, 1080,
          1103, 32, 1085, 1072, 32, 1057, 1055>>),
      \* line 82
      Entry(
        <<52, 46, 32, 1052, 1040, 1060, 32, 1054, 1054>>,
        <<1085, 1077, 1091, 1076, 1086, 1074, 1083, 1077, 1090, 1074,
          1086, 1088, 1080, 1090, 1077, 1083, 1100, 1085, 1086, 1077,
          32, 1089, 1086, 1089, 1090, 1086, 1103, 1085, 1080, 1077,
          32, 1052, 1040, 1060, 32, 1085, 1072, 32, 1054, 1054>>),
      \* line 83
      Entry(
        <<53, 46, 32, 1043, 1072, 1079, 1086, 1085, 32, 1054, 1054>>,
        <<1085, 1077, 1091, 1076, 1086, 1074, 1083, 1077, 1090, 1074,
          1086, 1088, 1080, 1090, 1077, 1083, 1100, 1085, 1086, 1077,
          32, 1089, 1086, 1089, 1090, 1086, 1103, 1085, 1080, 1077,
          32, 1075, 1072, 1079, 1086, 1085, 1072, 32, 1080, 32, 1079,
          1077, 1083, 1077, 1085, 1099, 1093, 32, 1085, 1072, 1089,
          1072, 1078, 1076, 1077, 1085, 1080, 1081>>) }

\* the default of VIOLATION_MAP.get: "unknown kind of violation" (Russian)
UnknownViolation ==
    <<1085, 1077, 1080, 1079, 1074, 1077, 1089, 1090, 1085, 1099,
          1081, 32, 1090, 1080, 1087, 32, 1085, 1072, 1088, 1091,
          1096, 1077, 1085, 1080, 1103>>

\* dict.get(key, default)
DictGet(d, k, default) ==
    IF \E e \in d : e.key = k THEN (CHOOSE e \in d : e.key = k).text ELSE default

\* self.VIOLATION_MAP.get(info["subfolder"], "...").strip()
ViolationText(subfolder) == Strip(DictGet(VIOLATION_MAP, subfolder, UnknownViolation))

(***************************************************************************)
(* Documents.  A document is the sequence of its block elements; a table   *)
(* is a sequence of rows of two cells.  Rows and columns are numbered from *)
(* 0 as in the code.                                                       *)
(***************************************************************************)
Cell(k, p, a, sf, v) ==
    [kind |-> k, path |-> p, address |-> a, subfolder |-> sf, violation |-> v]
Unset == Cell("Unset", <<>>, <<>>, <<>>, <<>>)
Empty == Cell("Empty", <<>>, <<>>, <<>>, <<>>)
PhotoCell(path) == Cell("Photo", path, <<>>, <<>>, <<>>)

Element(k, f, t, r, c) == [kind |-> k, folder |-> f, text |-> t, rows |-> r, cells |-> c]
PageBreak == Element("page_break", <<>>, <<>>, 0, <<>>)

\* _extract_gbu_short_name: re.search(r'<<(.+?)>>', gbu_name) with guillemets
\* (code points 171 and 187): the leftmost opening guillemet that is followed
\* by one or more characters other than a line feed and then a closing
\* guillemet, with the shortest such run; the run in guillemets, else the name
LQUOTE == 171
RQUOTE == 187
LF == 10

ExtractGbuShortName(g) ==
    LET Closes(i) == {j \in (i + 2)..Len(g) :
                        g[j] = RQUOTE /\ \A y \in (i + 1)..(j - 1) : g[y] # LF}
        Opens == {i \in 1..Len(g) : g[i] = LQUOTE /\ Closes(i) # {}}
    IN IF Opens = {} THEN g
       ELSE LET i == CHOOSE x \in Opens : \A y \in Opens : x <= y
                j == CHOOSE x \in Closes(i) : \A y \in Closes(i) : x <= y
            IN <<LQUOTE>> \o SubSeq(g, i + 1, j - 1) \o <<RQUOTE>>

\* _create_title_page: the paragraph "Prilozhenie No <app_number>"
TitlePage(app) == Element("title", <<>>, <<app>>, 0, <<>>)

\* _create_section_header: HEADERS_MAP[folder] + " " + short name
SectionHeader(folder, gbu) == Element("header", folder, ExtractGbuShortName(gbu), 0, <<>>)

\* mutant: the row count rounded down instead of up
TableRowsRoundedDown(photo_count, left_only) ==
    IF left_only THEN photo_count * 2 ELSE (photo_count \div 2) * 2

\* _create_table_for_photos: the number of rows
TableRows(photo_count, left_only) ==
    IF left_only THEN photo_count * 2 ELSE ((photo_count + 1) \div 2) * 2

\* doc.add_table(rows=rows, cols=2)
NewTable(folder, photo_count, left_only) ==
    LET rows == TableRows(photo_count, left_only)
    IN Element("table", folder, <<>>, rows, [r \in 1..rows |-> <<Unset, Unset>>])

InTable(t, row, col) == row \in 0..(t.rows - 1) /\ col \in {0, 1}

CellAt(t, row, col) == t.cells[row + 1][col + 1]

SetCell(t, row, col, v) == [t EXCEPT !.cells[row + 1][col + 1] = v]

\* _clear_cell: any failure is swallowed
ClearCell(t, row, col) == IF InTable(t, row, col) THEN SetCell(t, row, col, Empty) ELSE t

\* _insert_photo: a file that does not decode, or a cell that does not exist,
\* is reported and the cell is left as it was
InsertPhoto(t, row, col, path, ok) ==
    IF ok /\ InTable(t, row, col) THEN SetCell(t, row, col, PhotoCell(path)) ELSE t

\* _insert_caption: the caption replaces whatever the cell held
CaptionCell(info) ==
    Cell("Caption", info.path, CleanAddress(info.path), info.subfolder,
         ViolationText(info.subfolder))

InsertCaption(t, row, col, info) == SetCell(t, row, col, CaptionCell(info))

(***************************************************************************)
(* _fill_table.  A call on a cell is [op, row, col, info]; the calls of    *)
(* one loop iteration are applied in the order the code makes them.        *)
(***************************************************************************)
NoInfo == [path |-> <<>>, subfolder |-> <<>>]

Call(op, row, col, info) == [op |-> op, row |-> row, col |-> col, info |-> info]

\* mutant: the right column is left as created
LeftOnlyCallsNoClear(phs, photo_idx) ==
    LET info == phs[photo_idx + 1]
        row_idx == photo_idx * 2
    IN << Call("insert_photo", row_idx, 0, info),
          Call("insert_caption", row_idx + 1, 0, info) >>

\* one iteration of the loop of the left_only branch
LeftOnlyCalls(phs, photo_idx) ==
    LET info == phs[photo_idx + 1]
        row_idx == photo_idx * 2
    IN << Call("insert_photo", row_idx, 0, info),
          Call("insert_caption", row_idx + 1, 0, info),
          Call("clear_cell", row_idx, 1, NoInfo),
          Call("clear_cell", row_idx + 1, 1, NoInfo) >>

\* mutant: the second photo of a pair goes below the first
PairedCallsStacked(phs, photo_idx, row_idx) ==
    LET left_photo == phs[photo_idx + 1]
        has_right == photo_idx + 1 < Len(phs)
        right_photo == IF has_right THEN phs[photo_idx + 2] ELSE NoInfo
    IN << Call("insert_photo", row_idx, 0, left_photo),
          Call("insert_caption", row_idx, 1, left_photo),
          IF has_right THEN Call("insert_photo", row_idx + 1, 0, right_photo)
                       ELSE Call("clear_cell", row_idx + 1, 0, NoInfo),
          IF has_right THEN Call("insert_caption", row_idx + 1, 1, right_photo)
                       ELSE Call("clear_cell", row_idx + 1, 1, NoInfo) >>

\* mutant: the cells beside an unpaired last photo are left as created
PairedCallsNoClear(phs, photo_idx, row_idx) ==
    LET left_photo == phs[photo_idx + 1]
        has_right == photo_idx + 1 < Len(phs)
        right_photo == IF has_right THEN phs[photo_idx + 2] ELSE NoInfo
    IN IF has_right
       THEN << Call("insert_photo", row_idx, 0, left_photo),
               Call("insert_photo", row_idx, 1, right_photo),
               Call("insert_caption", row_idx + 1, 0, left_photo),
               Call("insert_caption", row_idx + 1, 1, right_photo) >>
       ELSE << Call("insert_photo", row_idx, 0, left_photo),
               Call("insert_caption", row_idx + 1, 0, left_photo) >>

\* mutant: the second photo of a pair is put over the first
PairedCallsOverwrite(phs, photo_idx, row_idx) ==
    LET left_photo == phs[photo_idx + 1]
        has_right == photo_idx + 1 < Len(phs)
        right_photo == IF has_right THEN phs[photo_idx + 2] ELSE NoInfo
    IN << Call("insert_photo", row_idx, 0, left_photo),
          IF has_right THEN Call("insert_photo", row_idx, 0, right_photo)
                       ELSE Call("clear_cell", row_idx, 1, NoInfo),
          Call("insert_caption", row_idx + 1, 0, left_photo),
          IF has_right THEN Call("insert_caption", row_idx + 1, 1, right_photo)
                       ELSE Call("clear_cell", row_idx + 1, 1, NoInfo) >>

\* one iteration of the while loop of the two-column branch
PairedCalls(phs, photo_idx, row_idx) ==
    LET left_photo == phs[photo_idx + 1]
        has_right == photo_idx + 1 < Len(phs)
        right_photo == IF has_right THEN phs[photo_idx + 2] ELSE NoInfo
    IN << Call("insert_photo", row_idx, 0, left_photo),
          IF has_right THEN Call("insert_photo", row_idx, 1, right_photo)
                       ELSE Call("clear_cell", row_idx, 1, NoInfo),
          Call("insert_caption", row_idx + 1, 0, left_photo),
          IF has_right THEN Call("insert_caption", row_idx + 1, 1, right_photo)
                       ELSE Call("clear_cell", row_idx + 1, 1, NoInfo) >>

\* photos consumed by one iteration of the two-column branch
PairedAdvance(phs, photo_idx) == IF photo_idx + 1 < Len(phs) THEN 2 ELSE 1

\* whether Image.open and the re-encoding of the file succeed
Decodable(t, path) == \E e \in t : e.path = path /\ e.kind = "file" /\ e.ok

\* _insert_photo prints the error it caught: a file that does not decode,
\* or a cell outside the table
Reports(t, c, folderTree) ==
    /\ c.op = "insert_photo"
    /\ ~(Decodable(folderTree, c.info.path) /\ InTable(t, c.row, c.col))

\* mutant: _insert_photo without its try/except
RaisesUncaught(t, c, folderTree) ==
    \/ c.op = "insert_caption" /\ ~InTable(t, c.row, c.col)
    \/ Reports(t, c, folderTree)

\* table.cell(row, col) raises IndexError outside the table; only
\* _insert_caption lets it escape: _insert_photo and _clear_cell catch
\* every Exception
Raises(t, c, folderTree) == c.op = "insert_caption" /\ ~InTable(t, c.row, c.col)

ApplyCall(t, c, folderTree) ==
    IF c.op = "insert_photo"
    THEN InsertPhoto(t, c.row, c.col, c.info.path, Decodable(folderTree, c.info.path))
    ELSE IF c.op = "insert_caption" THEN InsertCaption(t, c.row, c.col, c.info)
    ELSE ClearCell(t, c.row, c.col)

\* the calls are made one after another until one raises
RECURSIVE ApplyCalls(_, _, _)
ApplyCalls(r, cs, folderTree) ==
    IF cs = <<>> \/ r.raised THEN r
    ELSE IF Raises(r.table, Head(cs), folderTree)
         THEN [r EXCEPT !.raised = TRUE, !.made = Append(@, Head(cs))]
         ELSE ApplyCalls([table |-> ApplyCall(r.table, Head(cs), folderTree),
                          made |-> Append(r.made, Head(cs)),
                          printed |-> IF Reports(r.table, Head(cs), folderTree)
                                      THEN Append(r.printed, Head(cs).info.path)
                                      ELSE r.printed,
                          raised |-> FALSE],
                         Tail(cs), folderTree)

(***************************************************************************)
(* The document builds: fill_prilozhenie (left_only = FALSE) and           *)
(* fill_prilozhenie_ustraneniya (left_only = TRUE).  The record b holds    *)
(* the locals of the running build; "calls" logs the cell calls made.      *)
(***************************************************************************)
\* folders = ["1. DT", "2. MKD", "3. ODH", "4. OO"] (Cyrillic letters)
FOLDERS ==
    << <<49, 46, 32, 1044, 1058>>,
       <<50, 46, 32, 1052, 1050, 1044>>,
       <<51, 46, 32, 1054, 1044, 1061>>,
       <<52, 46, 32, 1054, 1054>> >>

FolderSet == Range(FOLDERS)

IdleBuild ==
    [left_only |-> FALSE, at |-> "idle", fi |-> 1, first_section |-> TRUE,
     doc |-> <<>>, photos |-> <<>>, row_idx |-> 0, photo_idx |-> 0, calls |-> <<>>,
     printed |-> <<>>, table_grid |-> TRUE]

\* the template is an empty document; the title page needs both the name
\* and the number
OpenDocument(left_only, gbu, app, tpl) ==
    [IdleBuild EXCEPT !.left_only = left_only, !.at = "loop",
                      !.table_grid = tpl.table_grid,
                      !.doc = IF gbu # <<>> /\ app # 0 THEN <<TitlePage(app)>> ELSE <<>>]

\* self._collect_photos(photo_root / folder)
FolderPhotos(root, folder, fl) ==
    CollectPhotos(folder, root[folder].listing, fl)

\* mutant: a page break before every category but the first of the list
PageBreakBeforeByPosition(b) == b.fi > 1

\* "if not first_section: doc.add_page_break()"
PageBreakBefore(b) == ~b.first_section

\* mutant: only a missing folder is skipped
SkipsFolderIfMissing(b, root, fl) == ~root[FOLDERS[b.fi]].exists

\* "if not folder_path.exists(): continue" and "if not photos: continue"
SkipsFolder(b, root, fl) ==
    \/ ~root[FOLDERS[b.fi]].exists
    \/ FolderPhotos(root, FOLDERS[b.fi], fl) = <<>>

\* the body of "for folder in folders", up to the call of _fill_table.
\* table.style = 'Table Grid' raises KeyError when the document has no such
\* style; the exception leaves the build and its locals are lost
ForFolder(b, root, gbu, fl) ==
    LET folder == FOLDERS[b.fi]
        phs == FolderPhotos(root, folder, fl)
    IN IF SkipsFolder(b, root, fl) THEN [b EXCEPT !.fi = @ + 1]
       ELSE IF ~b.table_grid THEN [b EXCEPT !.at = "raised"]
       ELSE [b EXCEPT
               !.doc = @ \o (IF PageBreakBefore(b) THEN <<PageBreak>> ELSE <<>>)
                         \o (IF gbu # <<>> THEN <<SectionHeader(folder, gbu)>> ELSE <<>>)
                         \o <<NewTable(folder, Len(phs), b.left_only)>>,
               !.first_section = FALSE,
               !.photos = phs, !.row_idx = 0, !.photo_idx = 0,
               !.at = "fill"]

\* one iteration of the loop of _fill_table on table = doc.tables[-1]
FillIteration(b, root) ==
    LET folder == FOLDERS[b.fi]
        cs == IF b.left_only THEN LeftOnlyCalls(b.photos, b.photo_idx)
              ELSE PairedCalls(b.photos, b.photo_idx, b.row_idx)
        r == ApplyCalls([table |-> b.doc[Len(b.doc)], made |-> <<>>,
                         printed |-> <<>>, raised |-> FALSE],
                        cs, root[folder].tree)
    IN [b EXCEPT
          !.doc[Len(b.doc)] = r.table,
          !.calls = @ \o [i \in 1..Len(r.made) |-> [folder |-> folder, call |-> r.made[i]]],
          !.printed = @ \o r.printed,
          !.photo_idx = IF b.left_only THEN @ + 1 ELSE @ + PairedAdvance(b.photos, @),
          !.row_idx = @ + 2,
          !.at = IF r.raised THEN "raised" ELSE "fill"]

\* _fill_table returns; the for loop goes on to the next folder
FillReturn(b) == [b EXCEPT !.fi = @ + 1, !.at = "loop"]

\* doc.save(str(save_path))
SaveDocument(b) == [b EXCEPT !.at = "saved"]

InLoop(b) == b.at = "loop" /\ b.fi <= Len(FOLDERS)
Filling(b) == b.at = "fill" /\ b.photo_idx < Len(b.photos)
FillDone(b) == b.at = "fill" /\ b.photo_idx >= Len(b.photos)
\* mutant: the document is saved whenever the loop is at a folder
AtSaveInLoop(b) == b.at = "loop"

\* the for loop is over: doc.save is next
AtSave(b) == b.at = "loop" /\ b.fi > Len(FOLDERS)

\* one step of a build
StepBuild(b, root, gbu, fl) ==
    IF InLoop(b) THEN ForFolder(b, root, gbu, fl)
    ELSE IF Filling(b) THEN FillIteration(b, root)
    ELSE IF FillDone(b) THEN FillReturn(b)
    ELSE IF AtSave(b) THEN SaveDocument(b)
    ELSE b

\* a whole build, from the opened document to the save or the exception
RECURSIVE RunBuild(_, _, _, _)
RunBuild(b, root, gbu, fl) ==
    IF b.at \in {"saved", "raised", "idle"} THEN b
    ELSE RunBuild(StepBuild(b, root, gbu, fl), root, gbu, fl)

(***************************************************************************)
(* APFiller.fill_ap                                                        *)
(***************************************************************************)
ROW_START == 4

\* FOLDER_MAP: the columns of the name and of the subfolder on the sheet of
\* each category folder ("AP DT": B, C; "AP MKD": C, D; "AP ODH": B, C;
\* "AP OO": B, C)
FolderMapColumns(folder) ==
    IF folder = FOLDERS[2] THEN <<"C", "D">> ELSE <<"B", "C">>

\* the rows written on one sheet
SheetRows(root, folder, fl) ==
    LET fi == GetAllFilesWithSubfolders(folder, root[folder].exists,
                                        root[folder].listing, fl)
    IN [i \in 1..Len(fi) |->
          [row |-> ROW_START + (i - 1),
           col_name |-> FolderMapColumns(folder)[1],
           col_folder |-> FolderMapColumns(folder)[2],
           name |-> CleanName(fi[i].filename),
           subfolder |-> fi[i].subfolder]]

FillApSheets(root, fl) == [f \in FolderSet |-> SheetRows(root, f, fl)]

(***************************************************************************)
(* Report runs: the photo root and the operator's data                     *)
(***************************************************************************)
\* a category folder: whether it exists, its entries, and the order in
\* which rglob('*') yields them
MissingFolder == [exists |-> FALSE, tree |-> {}, listing |-> <<>>]
Folder(t) == [exists |-> TRUE, tree |-> t, listing |-> SomeListing(t)]

\* a subfolder named "1. Teh" (Cyrillic), a key of the violation catalog
SubName == <<49, 46, 32, 1058, 1077, 1093>>

\* the same name followed by a space, and a folder "x" that is no key
SubNameSpaced == SubName \o <<SP>>
OtherName == <<120>>

\* the k-th photo of a folder: "a_1 (2).jpg", then "b.jpg", "c.jpg", ...;
\* even ones lie directly in the category folder, the first in the
\* subfolder "1. Teh", the third in its subfolder "x", the fifth in the
\* folder "1. Teh " and later odd ones in "1. Teh"; the third does not decode
PhotoName(k) == IF k = 1 THEN <<97, 95, 49, 32, 40, 50, 41>> \o JPG ELSE <<96 + k>> \o JPG

PhotoDir(k) ==
    IF k % 2 = 0 THEN <<>>
    ELSE IF k = 3 THEN <<SubName, OtherName>>
    ELSE IF k = 5 THEN <<SubNameSpaced>>
    ELSE <<SubName>>

PhotoFile(k) ==
    [path |-> PhotoDir(k) \o <<PhotoName(k)>>, kind |-> "file", ok |-> (k # 3)]

\* the folders the photos lie in, with their parents
PhotoDirs(n) ==
    UNION {{Dir(SubSeq(PhotoDir(k), 1, j)) : j \in 1..Len(PhotoDir(k))} : k \in 1..n}

PhotoTree(n) == {Dir(<<SubName>>)} \cup PhotoDirs(n) \cup {PhotoFile(k) : k \in 1..n}

\* a folder without any image: a subfolder, a text file, a folder named C.png
JunkTree ==
    { Dir(<< <<97>> >>), File(<< <<99, 46, 116, 120, 116>> >>),
      Dir(<< <<67, 46, 112, 110, 103>> >>) }

FolderStates ==
    {MissingFolder, Folder({}), Folder(JunkTree)}
        \cup {Folder(PhotoTree(n)) : n \in 1..MaxPhotos}

NPhotos(fs) == Cardinality({e \in fs.tree : IsPhotoItem(e)})

RECURSIVE SumPhotos(_, _)
SumPhotos(root, i) ==
    IF i = 0 THEN 0 ELSE NPhotos(root[FOLDERS[i]]) + SumPhotos(root, i - 1)

Roots == {r \in [FolderSet -> FolderStates] : SumPhotos(r, Len(FOLDERS)) <= MaxPhotos}

\* no name, and "GBU <<Zh>>" in Cyrillic with guillemets
UsualNames == { <<>>, <<1043, 1041, 1059, 32, 171, 1046, 187>> }

\* "Zh" without guillemets, and "<<>><<B>>", whose first pair of guillemets
\* holds nothing
OtherNames == { <<1046>>, <<171, 187, 171, 1041, 187>> }

GbuNames == UsualNames \cup OtherNames

AppNumbers == {0, 1}

\* the template with the table style the builds name, and one without it
Templates == {[table_grid |-> TRUE], [table_grid |-> FALSE]}

NotSaved == [writes |-> 0, doc |-> <<>>]

ReportIdle ==
    /\ photo_root = [f \in FolderSet |-> MissingFolder]
    /\ gbu_name = <<>> /\ app_number = 0
    /\ template = [table_grid |-> TRUE]
    /\ pc = "off"
    /\ ap = [f \in FolderSet |-> <<>>]
    /\ build = IdleBuild
    /\ saved = [o \in {"prilozhenie", "ustraneniya"} |-> NotSaved]

Output(b) == IF b.left_only THEN "ustraneniya" ELSE "prilozhenie"

\* ap_filler.fill_ap(output_paths["ap_copy"], photo_root)
FillAp ==
    /\ pc = "fill_ap"
    /\ ap' = FillApSheets(photo_root, flavour)
    /\ pc' = "prilozhenie"
    /\ UNCHANGED <<photo_root, gbu_name, app_number, template, build, saved>>
    /\ UNCHANGED <<vars_collect, vars_addr, vars_main, vars_fs>>

\* filler.fill_prilozhenie(...) is called: the document is opened
FillPrilozhenie ==
    /\ pc = "prilozhenie" /\ build.at = "idle"
    /\ build' = OpenDocument(FALSE, gbu_name, app_number, template)
    /\ UNCHANGED <<photo_root, gbu_name, app_number, template, pc, ap, saved>>
    /\ UNCHANGED <<vars_collect, vars_addr, vars_main, vars_fs>>

\* filler.fill_prilozhenie_ustraneniya(...) is called
FillPrilozhenieUstraneniya ==
    /\ pc = "ustraneniya" /\ build.at = "saved"
    /\ build' = OpenDocument(TRUE, gbu_name, app_number, template)
    /\ UNCHANGED <<photo_root, gbu_name, app_number, template, pc, ap, saved>>
    /\ UNCHANGED <<vars_collect, vars_addr, vars_main, vars_fs>>

\* the category folder does not exist, or holds no photo: continue
SkipFolder ==
    /\ pc \in {"prilozhenie", "ustraneniya"}
    /\ InLoop(build) /\ SkipsFolder(build, photo_root, flavour)
    /\ build' = StepBuild(build, photo_root, gbu_name, flavour)
    /\ UNCHANGED <<photo_root, gbu_name, app_number, template, pc, ap, saved>>
    /\ UNCHANGED <<vars_collect, vars_addr, vars_main, vars_fs>>

\* page break, header and table of a category with photos
BeginSection ==
    /\ pc \in {"prilozhenie", "ustraneniya"}
    /\ InLoop(build) /\ ~SkipsFolder(build, photo_root, flavour)
    /\ build' = StepBuild(build, photo_root, gbu_name, flavour)
    /\ pc' = IF build'.at = "raised" THEN "aborted" ELSE pc
    /\ UNCHANGED <<photo_root, gbu_name, app_number, template, ap, saved>>
    /\ UNCHANGED <<vars_collect, vars_addr, vars_main, vars_fs>>

\* one iteration of _fill_table; an exception ends the run
FillTableStep ==
    /\ pc \in {"prilozhenie", "ustraneniya"}
    /\ Filling(build)
    /\ build' = StepBuild(build, photo_root, gbu_name, flavour)
    /\ pc' = IF build'.at = "raised" THEN "aborted" ELSE pc
    /\ UNCHANGED <<photo_root, gbu_name, app_number, template, ap, saved>>
    /\ UNCHANGED <<vars_collect, vars_addr, vars_main, vars_fs>>

\* _fill_table returns
FillTableReturn ==
    /\ pc \in {"prilozhenie", "ustraneniya"}
    /\ FillDone(build)
    /\ build' = StepBuild(build, photo_root, gbu_name, flavour)
    /\ UNCHANGED <<photo_root, gbu_name, app_number, template, pc, ap, saved>>
    /\ UNCHANGED <<vars_collect, vars_addr, vars_main, vars_fs>>

\* doc.save(save_path); the build returns to main
Save ==
    /\ pc \in {"prilozhenie", "ustraneniya"}
    /\ AtSave(build)
    /\ build' = StepBuild(build, photo_root, gbu_name, flavour)
    /\ saved' = [saved EXCEPT ![Output(build)] =
                    [writes |-> @.writes + 1, doc |-> build.doc]]
    /\ pc' = IF pc = "prilozhenie" THEN "ustraneniya" ELSE "done"
    /\ UNCHANGED <<photo_root, gbu_name, app_number, template, ap>>
    /\ UNCHANGED <<vars_collect, vars_addr, vars_main, vars_fs>>

Init ==
    /\ photo_root \in Roots
    /\ gbu_name \in GbuNames
    /\ app_number \in AppNumbers
    /\ template \in Templates
    /\ gbu_name \in OtherNames => app_number = 0 /\ template.table_grid
    /\ pc = "fill_ap"
    /\ ap = [f \in FolderSet |-> <<>>]
    /\ build = IdleBuild
    /\ saved = [o \in {"prilozhenie", "ustraneniya"} |-> NotSaved]
    /\ CollectIdle /\ AddrIdle /\ MainIdle /\ FsIdle

Next ==
    \/ FillAp
    \/ FillPrilozhenie
    \/ FillPrilozhenieUstraneniya
    \/ SkipFolder
    \/ BeginSection
    \/ FillTableStep
    \/ FillTableReturn
    \/ Save

Spec == Init /\ [][Next]_vars

(***************************************************************************)
(* Collector runs                                                          *)
(***************************************************************************)
InitCollect ==
    /\ root_exists \in BOOLEAN
    /\ tree \in Trees
    /\ ~root_exists => tree = {}
    /\ flavour \in {"posix", "nt"}
    /\ listing = <<>> /\ photos = <<>> /\ files_info = <<>>
    /\ cpc = "rglob"
    /\ AddrIdle /\ ReportIdle /\ MainIdle /\ FsIdle

NextCollect == RglobYield \/ CollectPhotosCall \/ GetAllFilesCall

SpecCollect == InitCollect /\ [][NextCollect]_vars

(***************************************************************************)
(* Address extractor runs                                                  *)
(***************************************************************************)
\* the characters stems are made of: a _ space ( ) 1
StemChars == {97, USCORE, SP, LPAR, RPAR, 49}

\* "12_34 (2)", "A (10)" (Cyrillic A) and "a (1) (2)"
ExampleStems ==
    { <<49, 50, 95, 51, 52, 32, 40, 50, 41>>, <<1040, 32, 40, 49, 48, 41>>,
      <<97, 32, 40, 49, 41, 32, 40, 50, 41>> }

\* the base name of a collected photo is not empty (it has a suffix)
Stems == UNION {[1..n -> StemChars] : n \in 1..MaxLen} \cup ExampleStems

\* name is the base name; the file is name + ".jpg"
InitAddr ==
    /\ name \in Stems
    /\ address = <<>> /\ cleaned = <<>>
    /\ twice = NotApplied
    /\ apc = "start"
    /\ CollectIdle /\ ReportIdle /\ MainIdle /\ FsIdle

\* self._clean_address(info["path"])
CleanAddressCall ==
    /\ apc = "start"
    /\ address' = CleanAddress(<<SubName, name \o JPG>>)
    /\ apc' = "address"
    /\ UNCHANGED <<name, cleaned, twice>>
    /\ UNCHANGED <<vars_collect, vars_report, vars_main, vars_fs>>

\* self.clean_name(file_info["filename"])
CleanNameCall ==
    /\ apc = "address"
    /\ cleaned' = CleanName(name \o JPG)
    /\ apc' = "cleaned"
    /\ UNCHANGED <<name, address, twice>>
    /\ UNCHANGED <<vars_collect, vars_report, vars_main, vars_fs>>

\* _clean_address on its own result, taken as a base name
CleanAddressAgain ==
    /\ apc = "cleaned"
    /\ twice' = [twice EXCEPT !.address = AddressOfBaseName(address)]
    /\ apc' = "address_again"
    /\ UNCHANGED <<name, address, cleaned>>
    /\ UNCHANGED <<vars_collect, vars_report, vars_main, vars_fs>>

\* clean_name on its own result, taken as a base name
CleanNameAgain ==
    /\ apc = "address_again"
    /\ twice' = [twice EXCEPT !.cleaned = NameOfBaseName(cleaned)]
    /\ apc' = "cleaned_again"
    /\ UNCHANGED <<name, address, cleaned>>
    /\ UNCHANGED <<vars_collect, vars_report, vars_main, vars_fs>>

NextAddr ==
    \/ CleanAddressCall
    \/ CleanNameCall
    \/ CleanAddressAgain
    \/ CleanNameAgain

SpecAddr == InitAddr /\ [][NextAddr]_vars

(***************************************************************************)
(* The whole run: main() and the handler around it (src/main.py).  A step  *)
(* of the pipeline ends "ok", "raised" (an exception leaves the step) or   *)
(* "recovered" (an exception was raised and caught inside the step).       *)
(***************************************************************************)
\* int(s): surrounding whitespace is dropped, then an optional sign and
\* decimal digits, single underscores allowed between digits; anything
\* else raises ValueError
Unsigned(s) == IF s # <<>> /\ Head(s) \in {43, 45} THEN Tail(s) ELSE s

IsDigits(d) ==
    /\ d # <<>>
    /\ IsDigit(d[1]) /\ IsDigit(d[Len(d)])
    /\ \A i \in 1..Len(d) : IsDigit(d[i]) \/ d[i] = USCORE
    /\ \A i \in 1..(Len(d) - 1) : ~(d[i] = USCORE /\ d[i + 1] = USCORE)

RECURSIVE DigitsValue(_)
DigitsValue(d) ==
    IF d = <<>> THEN 0
    ELSE IF d[Len(d)] = USCORE THEN DigitsValue(SubSeq(d, 1, Len(d) - 1))
    ELSE DigitsValue(SubSeq(d, 1, Len(d) - 1)) * 10 + (d[Len(d)] - 48)

\* mutant: int() never raises
IntAcceptsAnything(s) == TRUE

\* int(s) returns
IntAccepts(s) == IsDigits(Unsigned(Strip(s)))

\* the value int(s) returns
IntOf(s) ==
    LET t == Strip(s)
        d == Unsigned(t)
    IN IF t # <<>> /\ Head(t) = 45 THEN 0 - DigitsValue(d) ELSE DigitsValue(d)

\* what the operator may type at a count prompt: "1_0", " -3 ", "x", "",
\* "1.5"
Entries ==
    { <<49, 95, 48>>, <<32, 45, 51, 32>>, <<120>>, <<>>, <<49, 46, 53>> }

\* collect_user_counts: the eight keys, in the order they are asked
CountKeys ==
    << "DT", "DT_passed", "MKD", "MKD_passed", "ODH", "ODH_passed", "OO", "OO_passed" >>

\* mutant: only the two folders are looked for
PathsExistButTemplates(p) == p.photo_root /\ p.templates_dir

\* init_project_paths returns a result, not None
PathsExist(p) ==
    /\ p.photo_root
    /\ p.templates_dir
    /\ p.rt /\ p.ap /\ p.prilozhenie

\* the files of the working folder a step creates or modifies
Writes(step) ==
    IF step = "copy_templates" THEN {"rt_copy", "ap_copy", "prilozhenie_template"}
    ELSE IF step \in {"fill_counts", "fill_ap"} THEN {"ap_copy"}
    ELSE IF step = "fill_rt" THEN {"rt_copy"}
    ELSE IF step = "fill_prilozhenie" THEN {"prilozhenie"}
    ELSE IF step = "fill_prilozhenie_ustraneniya" THEN {"prilozhenie_ustraneniya"}
    ELSE {}

\* how a step can end.  Caught inside the step: in fill_rt a failure while
\* a summary value is copied (logged as a warning), in the builds a failure
\* in _insert_photo (printed) or in _clear_cell (silent), in
\* remove_empty_folders an OSError of rmdir (silent)
Outcomes(step) ==
    IF step \in {"fill_prilozhenie", "fill_prilozhenie_ustraneniya"}
    THEN {"ok", "raised", "recovered_photo", "recovered"}
    ELSE IF step \in {"fill_rt", "remove_empty_folders"}
    THEN {"ok", "raised", "recovered"}
    ELSE {"ok", "raised"}

\* what the operator is shown when a step ends this way
Shown(step, outcome) ==
    IF outcome = "recovered" /\ step = "fill_rt" THEN {"warning"}
    ELSE IF outcome = "recovered_photo" THEN {"photo_error"}
    ELSE {}

\* one step of the pipeline, and where main goes from it
RunStep(step, next) ==
    /\ mpc = step
    /\ \E o \in Outcomes(step) :
          /\ steps' = Append(steps, [step |-> step, outcome |-> o])
          /\ mpc' = IF o = "raised" THEN "handler" ELSE next
          /\ written' = IF o = "raised" THEN written ELSE written \cup Writes(step)
          /\ messages' = messages \cup Shown(step, o)
    /\ UNCHANGED <<paths, asked, counts, entry>>
    /\ UNCHANGED <<vars_collect, vars_addr, vars_report, vars_fs>>

\* result = init_project_paths(base_path); if result is None: input(...); return
MainInit ==
    /\ mpc = "init"
    /\ IF PathsExist(paths)
       THEN /\ mpc' = "report_data"
            /\ UNCHANGED <<asked, messages>>
       ELSE /\ mpc' = "returned"
            /\ messages' = messages \cup {"not_found"}
            /\ asked' = asked \cup {"exit_key"}
    /\ UNCHANGED <<paths, written, counts, entry, steps>>
    /\ UNCHANGED <<vars_collect, vars_addr, vars_report, vars_fs>>

\* gbu_name, app_number = ReportData().run(): the operator is asked for the
\* organisation's data
ReportDataRun ==
    /\ mpc = "report_data"
    /\ asked' = asked \cup {"organization"}
    /\ mpc' = "copy_templates"
    /\ UNCHANGED <<paths, messages, written, counts, entry, steps>>
    /\ UNCHANGED <<vars_collect, vars_addr, vars_report, vars_fs>>

CopyTemplates == RunStep("copy_templates", "collect_user_counts")

\* one iteration of the loop of get_int_input, for the next key of
\* collect_user_counts
GetIntInput ==
    /\ mpc = "collect_user_counts"
    /\ Len(counts) < Len(CountKeys)
    /\ \E e \in Entries :
          /\ entry' = e
          /\ IF ~IntAccepts(e)
             THEN /\ messages' = messages \cup {"enter_number"}
                  /\ UNCHANGED counts
             ELSE /\ counts' = Append(counts, IntOf(e))
                  /\ UNCHANGED messages
    /\ asked' = asked \cup {"count"}
    /\ UNCHANGED <<paths, mpc, written, steps>>
    /\ UNCHANGED <<vars_collect, vars_addr, vars_report, vars_fs>>

\* collect_user_counts returns the dictionary
CollectUserCountsReturn ==
    /\ mpc = "collect_user_counts"
    /\ Len(counts) = Len(CountKeys)
    /\ mpc' = "fill_counts"
    /\ UNCHANGED <<paths, asked, messages, written, counts, entry, steps>>
    /\ UNCHANGED <<vars_collect, vars_addr, vars_report, vars_fs>>

FillCounts == RunStep("fill_counts", "fill_ap")

MainFillAp == RunStep("fill_ap", "fill_rt")

FillRt == RunStep("fill_rt", "fill_prilozhenie")

MainFillPrilozhenie == RunStep("fill_prilozhenie", "fill_prilozhenie_ustraneniya")

MainFillPrilozhenieUstraneniya == RunStep("fill_prilozhenie_ustraneniya", "unlink")

\* output_paths["prilozhenie_template"].unlink(missing_ok=True)
UnlinkTemplate == RunStep("unlink", "remove_empty_folders")

RemoveEmptyFolders == RunStep("remove_empty_folders", "finish")

\* the closing messages and the last input(...)
Finish ==
    /\ mpc = "finish"
    /\ messages' = messages \cup {"success"}
    /\ asked' = asked \cup {"exit_key"}
    /\ mpc' = "returned"
    /\ UNCHANGED <<paths, written, counts, entry, steps>>
    /\ UNCHANGED <<vars_collect, vars_addr, vars_report, vars_fs>>

\* except Exception as e: the error is logged and printed, then input(...)
Handler ==
    /\ mpc = "handler"
    /\ messages' = messages \cup {"critical_error"}
    /\ asked' = asked \cup {"exit_key"}
    /\ mpc' = "exited"
    /\ UNCHANGED <<paths, written, counts, entry, steps>>
    /\ UNCHANGED <<vars_collect, vars_addr, vars_report, vars_fs>>

\* a templates folder that is missing holds no template
InitMain ==
    /\ paths \in [photo_root : BOOLEAN, templates_dir : BOOLEAN,
                   rt : BOOLEAN, ap : BOOLEAN, prilozhenie : BOOLEAN]
    /\ ~paths.templates_dir => ~(paths.rt \/ paths.ap \/ paths.prilozhenie)
    /\ mpc = "init"
    /\ asked = {} /\ messages = {} /\ written = {}
    /\ counts = <<>> /\ entry = NoEntry /\ steps = <<>>
    /\ CollectIdle /\ AddrIdle /\ ReportIdle /\ FsIdle

NextMain ==
    \/ MainInit
    \/ ReportDataRun
    \/ CopyTemplates
    \/ GetIntInput
    \/ CollectUserCountsReturn
    \/ FillCounts
    \/ MainFillAp
    \/ FillRt
    \/ MainFillPrilozhenie
    \/ MainFillPrilozhenieUstraneniya
    \/ UnlinkTemplate
    \/ RemoveEmptyFolders
    \/ Finish
    \/ Handler

SpecMain == InitMain /\ [][NextMain]_vars

\* the program keeps running while it can, and an operator who is asked
\* again and again for a number enters one in the end
OperatorEntersInteger == GetIntInput /\ counts' # counts

SpecMainFair ==
    SpecMain /\ WF_vars(NextMain) /\ SF_vars(OperatorEntersInteger)

(***************************************************************************)
(* The folder counts of fill_rt (src/fill_rt.py): for every sheet of       *)
(* SHEET_CELL_MAP and every folder name mapped in it, the folder is looked *)
(* for below the photo root and the number of its photos is written.       *)
(***************************************************************************)
MaxDisk == 7        \* entries below the photo root (SpecRt, SpecRm)

\* the rows of SHEET_CELL_MAP for "6. Gazon" (sheet DT), "1. Teh" and
\* "2. San" (sheet MKD), "1. Proezd ODH" (sheet ODH) and "5. Gazon OO"
\* (sheet OO), in the order of the source
SHEET_CELL_MAP ==
    << \* line 34
       [sheet |-> "DT", cell |-> "AB7",
        folder_name |-> <<54, 46, 32, 1043, 1072, 1079, 1086, 1085>>],
       \* line 37
       [sheet |-> "MKD", cell |-> "J8", folder_name |-> <<49, 46, 32, 1058, 1077, 1093>>],
       \* line 38
       [sheet |-> "MKD", cell |-> "K8", folder_name |-> <<50, 46, 32, 1057, 1072, 1085>>],
       \* line 46
       [sheet |-> "ODH", cell |-> "J7",
        folder_name |-> <<49, 46, 32, 1055, 1088, 1086, 1077, 1079, 1076, 32, 1054, 1044, 1061>>],
       \* line 72
       [sheet |-> "OO", cell |-> "AA7",
        folder_name |-> <<53, 46, 32, 1043, 1072, 1079, 1086, 1085, 32, 1054, 1054>>] >>

\* a cell of the workbook nothing was written to, and one written
NotWritten == [written |-> FALSE, value |-> 0]
Written(v) == [written |-> TRUE, value |-> v]

\* whether path p lies below folder d
Below(p, d) == Len(p) > Len(d) /\ SubSeq(p, 1, Len(d)) = d

\* PhotoFolderAnalyzer.count_photos_in_folder
CountPhotosInFolder(t, folder_path) ==
    Cardinality({e \in t : Below(e.path, folder_path) /\ IsPhotoItem(e)})

\* rglob yields a folder before what lies in it
CanYield(t, done) ==
    {e \in t \ done :
        Len(e.path) = 1 \/ Dir(SubSeq(e.path, 1, Len(e.path) - 1)) \in done}

\* find_folder_recursive: whether the item yielded is what is looked for
IsTarget(item, target_name) == item.kind = "dir" /\ ItemName(item) = target_name

RtAt(i) == fpc = "count" /\ rt.at = i /\ i <= Len(SHEET_CELL_MAP)

\* if sheet_name not in rt_sheet_names: continue
SheetNotFound ==
    /\ \E i \in 1..Len(SHEET_CELL_MAP) :
          /\ RtAt(i) /\ yielded = {}
          /\ SHEET_CELL_MAP[i].sheet \notin rt.sheets
          /\ rt' = [rt EXCEPT !.at = i + 1]
    /\ UNCHANGED <<disk, yielded, todo, removed_count, fpc>>
    /\ UNCHANGED <<vars_collect, vars_addr, vars_report, vars_main>>

\* one iteration of the loop of find_folder_recursive; at the folder looked
\* for it returns, and _fill_cell_with_photo_count writes the cell
FindFolderYield ==
    /\ \E i \in 1..Len(SHEET_CELL_MAP) :
          /\ RtAt(i)
          /\ SHEET_CELL_MAP[i].sheet \in rt.sheets
          /\ \E item \in CanYield(disk, yielded) :
                IF IsTarget(item, SHEET_CELL_MAP[i].folder_name)
                THEN /\ rt' = [rt EXCEPT
                               !.cells[i] = Written(CountPhotosInFolder(disk, item.path)),
                               !.at = i + 1]
                     /\ yielded' = {}
                ELSE /\ yielded' = yielded \cup {item}
                     /\ UNCHANGED rt
    /\ UNCHANGED <<disk, todo, removed_count, fpc>>
    /\ UNCHANGED <<vars_collect, vars_addr, vars_report, vars_main>>

\* find_folder_recursive returns None: the cell is left alone
FindFolderNone ==
    /\ \E i \in 1..Len(SHEET_CELL_MAP) :
          /\ RtAt(i)
          /\ SHEET_CELL_MAP[i].sheet \in rt.sheets
          /\ yielded = disk
          /\ rt' = [rt EXCEPT !.at = i + 1]
    /\ yielded' = {}
    /\ UNCHANGED <<disk, todo, removed_count, fpc>>
    /\ UNCHANGED <<vars_collect, vars_addr, vars_report, vars_main>>

\* wb_rt.save(str(rt_path))
RtSave ==
    /\ fpc = "count" /\ rt.at > Len(SHEET_CELL_MAP)
    /\ fpc' = "saved"
    /\ UNCHANGED <<disk, yielded, rt, todo, removed_count>>
    /\ UNCHANGED <<vars_collect, vars_addr, vars_report, vars_main>>

\* what may lie below the photo root: the category folders "1. DT" and
\* "2. MKD", a folder "1. Teh" in each with "a.jpg" in the first and "b.jpg",
\* "c.jpg", "d.txt" in the second, and "6. Gazon" with "e.PNG" in "1. DT"
DiskEntries ==
    { Dir(<<FOLDERS[1]>>), Dir(<<FOLDERS[2]>>),
      Dir(<<FOLDERS[1], SubName>>), Dir(<<FOLDERS[2], SubName>>),
      File(<<FOLDERS[1], SubName, <<97>> \o JPG>>),
      File(<<FOLDERS[2], SubName, <<98>> \o JPG>>),
      File(<<FOLDERS[2], SubName, <<99>> \o JPG>>),
      File(<<FOLDERS[2], SubName, <<100, 46, 116, 120, 116>>>>),
      Dir(<<FOLDERS[1], SHEET_CELL_MAP[1].folder_name>>),
      File(<<FOLDERS[1], SHEET_CELL_MAP[1].folder_name, <<101, 46, 80, 78, 71>>>>) }

Disks == {t \in SUBSET DiskEntries : Cardinality(t) <= MaxDisk /\ ParentClosed(t)}

\* the workbook with all its sheets, and one without the sheet MKD
InitRt ==
    /\ disk \in Disks
    /\ yielded = {}
    /\ rt \in {[sheets |-> sh, cells |-> [i \in 1..Len(SHEET_CELL_MAP) |-> NotWritten],
                 at |-> 1] : sh \in {{"DT", "MKD", "ODH", "OO"}, {"DT", "ODH", "OO"}}}
    /\ todo = <<>> /\ removed_count = 0
    /\ fpc = "count"
    /\ CollectIdle /\ AddrIdle /\ ReportIdle /\ MainIdle

NextRt ==
    \/ SheetNotFound
    \/ FindFolderYield
    \/ FindFolderNone
    \/ RtSave

SpecRt == InitRt /\ [][NextRt]_vars

(***************************************************************************)
(* remove_empty_folders (src/main.py).  The items below the root are       *)
(* listed, sorted by the number of their path components, deepest first,   *)
(* and every folder among them is removed if rmdir finds it empty.         *)
(***************************************************************************)
RECURSIVE SelectDepth(_, _)
SelectDepth(ls, d) ==
    IF ls = <<>> THEN <<>>
    ELSE IF Len(Head(ls).path) = d THEN <<Head(ls)>> \o SelectDepth(Tail(ls), d)
    ELSE SelectDepth(Tail(ls), d)

RECURSIVE FromDepth(_, _, _)
FromDepth(ls, d, step) ==
    IF d < 1 \/ d > Len(ls) THEN <<>>
    ELSE SelectDepth(ls, d) \o FromDepth(ls, d + step, step)

\* mutant: sorted without reverse=True, the shallowest items first
DepthSortedAscending(ls) == FromDepth(ls, 1, 1)

\* sorted(..., key=lambda p: len(p.parts), reverse=True): the sort is
\* stable, items of one depth keep the order rglob gave them (an item below
\* the root has at most as many components as there are items)
DepthSorted(ls) == FromDepth(ls, Len(ls), 0 - 1)

\* rglob('*') yields the next item
RmRglobYield ==
    /\ fpc = "rglob"
    /\ \E item \in CanYield(disk, yielded) :
          /\ yielded' = yielded \cup {item}
          /\ todo' = Append(todo, item)
    /\ UNCHANGED <<disk, rt, removed_count, fpc>>
    /\ UNCHANGED <<vars_collect, vars_addr, vars_report, vars_main>>

\* the listing is complete and sorted
RmSort ==
    /\ fpc = "rglob" /\ yielded = disk
    /\ todo' = DepthSorted(todo)
    /\ fpc' = "loop"
    /\ UNCHANGED <<disk, yielded, rt, removed_count>>
    /\ UNCHANGED <<vars_collect, vars_addr, vars_report, vars_main>>

\* rmdir raises OSError for a folder that is not empty
IsEmptyDir(t, item) == \A e \in t : ~Below(e.path, item.path)

\* one iteration of the loop
RmVisit ==
    /\ fpc = "loop" /\ todo # <<>>
    /\ LET item == Head(todo)
       IN IF item.kind = "dir" /\ item \in disk /\ IsEmptyDir(disk, item)
          THEN /\ disk' = disk \ {item}
               /\ removed_count' = removed_count + 1
          ELSE UNCHANGED <<disk, removed_count>>
    /\ todo' = Tail(todo)
    /\ UNCHANGED <<yielded, rt, fpc>>
    /\ UNCHANGED <<vars_collect, vars_addr, vars_report, vars_main>>

\* return removed_count
RmReturn ==
    /\ fpc = "loop" /\ todo = <<>>
    /\ fpc' = "returned"
    /\ UNCHANGED <<disk, yielded, rt, todo, removed_count>>
    /\ UNCHANGED <<vars_collect, vars_addr, vars_report, vars_main>>

\* what may lie below the root: the chain of folders a, a/b, a/b/c; the
\* file a/b/f.txt; the folder d with the photo d/p.jpg and the folder d/e;
\* the folder g; the file h.txt
RmEntries ==
    { Dir(<< <<97>> >>), Dir(<< <<97>>, <<98>> >>), Dir(<< <<97>>, <<98>>, <<99>> >>),
      File(<< <<97>>, <<98>>, <<102, 46, 116, 120, 116>> >>),
      Dir(<< <<100>> >>), File(<< <<100>>, <<112>> \o JPG >>),
      Dir(<< <<100>>, <<101>> >>),
      Dir(<< <<103>> >>), File(<< <<104, 46, 116, 120, 116>> >>) }

RmDisks == {t \in SUBSET RmEntries : Cardinality(t) <= MaxDisk /\ ParentClosed(t)}

InitRm ==
    /\ disk \in RmDisks
    /\ yielded = {} /\ todo = <<>> /\ removed_count = 0
    /\ rt = [sheets |-> {}, cells |-> <<>>, at |-> 0]
    /\ fpc = "rglob"
    /\ CollectIdle /\ AddrIdle /\ ReportIdle /\ MainIdle

NextRm ==
    \/ RmRglobYield
    \/ RmSort
    \/ RmVisit
    \/ RmReturn

SpecRm == InitRm /\ [][NextRm]_vars

(***************************************************************************)
(* Properties of the grid layout                                           *)
(***************************************************************************)
Tables(doc) == {k \in 1..Len(doc) : doc[k].kind = "table"}

\* the photos of the category a table belongs to, in collected order
TablePhotos(t) == FolderPhotos(photo_root, t.folder, flavour)

\* the table at position k of the running build is still being filled
BeingFilled(k) == k = Len(build.doc) /\ build.at = "fill"

\* the number of photos of table k that _fill_table has dealt with
PhotosDone(k) ==
    IF BeingFilled(k) THEN build.photo_idx ELSE Len(TablePhotos(build.doc[k]))

\* the calls of a kind made on the table of a folder
CallsOn(folder, op) ==
    {build.calls[i].call : i \in {j \in 1..Len(build.calls) :
        build.calls[j].folder = folder /\ build.calls[j].call.op = op}}

HoldsPhoto(t, row, col, info) ==
    /\ InTable(t, row, col)
    /\ IF Decodable(photo_root[t.folder].tree, info.path)
       THEN CellAt(t, row, col) = PhotoCell(info.path)
       ELSE CellAt(t, row, col).kind \in {"Unset", "Empty"}

HoldsCaption(t, row, col, info) ==
    /\ InTable(t, row, col)
    /\ CellAt(t, row, col).kind = "Caption"
    /\ CellAt(t, row, col).path = info.path
    /\ CellAt(t, row, col).subfolder = info.subfolder

IsCleared(t, row, col) == InTable(t, row, col) /\ CellAt(t, row, col) = Empty

C2_OddPadding ==
    ~build.left_only =>
        \A k \in Tables(build.doc) :
            LET t == build.doc[k]
                n == Len(TablePhotos(t))
            IN ~BeingFilled(k) =>
                IF n % 2 = 1
                THEN /\ IsCleared(t, n - 1, 1)
                     /\ IsCleared(t, n, 1)
                     /\ CallsOn(t.folder, "clear_cell")
                          = {Call("clear_cell", n - 1, 1, NoInfo), Call("clear_cell", n, 1, NoInfo)}
                ELSE /\ CallsOn(t.folder, "clear_cell") = {}
                     /\ \A r \in 0..(t.rows - 1), c \in {0, 1} : CellAt(t, r, c) # Empty

C2_Witness ==
    /\ ~build.left_only /\ build.at = "saved"
    /\ \E k \in Tables(build.doc) :
         LET t == build.doc[k]
         IN /\ Len(TablePhotos(t)) = 3 /\ t.rows = 4
            /\ CellAt(t, 2, 1) = Empty /\ CellAt(t, 3, 1) = Empty
            /\ CellAt(t, 2, 0).kind = "Photo"
    /\ \E k \in Tables(build.doc) :
         LET t == build.doc[k]
         IN /\ Len(TablePhotos(t)) = 2 /\ t.rows = 2
            /\ CellAt(t, 0, 1).kind = "Photo" /\ CellAt(t, 1, 1).kind = "Caption"

CeilHalf(n) == CHOOSE m \in 0..n : 2 * m >= n /\ 2 * m < n + 2

\* C4: the table of a category with n photos has 2*ceil(n/2) rows in the
\* two-column build and 2*n rows in the left-only build, and two columns, in
\* every state from its creation on; when it is created no cell is filled.
C4_TableSizing ==
    \A k \in Tables(build.doc) :
        LET t == build.doc[k]
            n == Len(TablePhotos(t))
        IN /\ t.rows = IF build.left_only THEN 2 * n ELSE 2 * CeilHalf(n)
           /\ Len(t.cells) = t.rows
           /\ \A r \in 1..Len(t.cells) : Len(t.cells[r]) = 2
           /\ (BeingFilled(k) /\ build.photo_idx = 0) =>
                 /\ \A r \in 1..Len(t.cells) : t.cells[r] = <<Unset, Unset>>
                 /\ CallsOn(t.folder, "insert_photo") = {}
                 /\ CallsOn(t.folder, "insert_caption") = {}
                 /\ CallsOn(t.folder, "clear_cell") = {}

\* a table of five photos while it is being filled, in either build
C4_Witness ==
    /\ build.at = "fill" /\ build.photo_idx \in 1..4
    /\ build.left_only
    /\ LET t == build.doc[Len(build.doc)]
       IN Len(build.photos) = 5 /\ t.rows = 10
    /\ saved["prilozhenie"].writes = 1
    /\ \E k \in Tables(saved["prilozhenie"].doc) : saved["prilozhenie"].doc[k].rows = 6

(***************************************************************************)
(* Properties of the section sequencing                                    *)
(***************************************************************************)
PageBreaks(doc) == {k \in 1..Len(doc) : doc[k].kind = "page_break"}

\* where the content of the section with its table at k begins
SectionStart(doc, k) == IF k > 1 /\ doc[k - 1].kind = "header" THEN k - 1 ELSE k

\* the categories that have at least one photo, in the fixed order
IsNonEmpty(f) == NPhotos(photo_root[f]) > 0
NonEmptyFolders == SelectSeq(FOLDERS, IsNonEmpty)

IsTable(e) == e.kind = "table"
IsHeaderOrTable(e) == e.kind \in {"header", "table"}

Max(a, b) == IF a >= b THEN a ELSE b

\* C5: in both builds a page break stands immediately before the content of
\* each non-empty category except the first non-empty one, and nowhere else;
\* a finished document has max(0, k - 1) page breaks for k non-empty
\* categories.
C5_PageBreaks ==
    /\ \A k \in Tables(build.doc) :
         LET s == SectionStart(build.doc, k)
         IN (s > 1 /\ build.doc[s - 1].kind = "page_break")
               <=> (\E j \in Tables(build.doc) : j < k)
    /\ \A p \in PageBreaks(build.doc) :
         \E k \in Tables(build.doc) : SectionStart(build.doc, k) = p + 1
    /\ build.at = "saved" =>
         Cardinality(PageBreaks(build.doc)) = Max(0, Len(NonEmptyFolders) - 1)

\* categories with 0, 3, 0 and 2 photos, the first folder missing: one page
\* break, before the last category, none before the second
C5_Witness ==
    /\ build.at = "saved" /\ build.left_only
    /\ ~photo_root[FOLDERS[1]].exists
    /\ NPhotos(photo_root[FOLDERS[2]]) = 3
    /\ photo_root[FOLDERS[3]].exists /\ NPhotos(photo_root[FOLDERS[3]]) = 0
    /\ NPhotos(photo_root[FOLDERS[4]]) = 2
    /\ Cardinality(PageBreaks(build.doc)) = 1
    /\ \E p \in PageBreaks(build.doc) :
         /\ build.doc[p + 1].kind = "header" /\ build.doc[p + 1].folder = FOLDERS[4]
         /\ build.doc[p - 1].kind = "table" /\ build.doc[p - 1].folder = FOLDERS[2]

\* the headers and tables of a document, in order
Sections(doc) == SelectSeq(doc, IsHeaderOrTable)
TableFolders(doc) == LET ts == SelectSeq(doc, IsTable) IN [i \in 1..Len(ts) |-> ts[i].folder]

\* C6 as stated: the headers and tables of a finished document are a header
\* and a table for each category with photos, in the fixed order.
C6_HeaderAndTablePerCategory ==
    build.at = "saved" =>
        LET ss == Sections(build.doc)
        IN /\ Len(ss) = 2 * Len(NonEmptyFolders)
           /\ \A i \in 1..Len(NonEmptyFolders) :
                /\ ss[2 * i - 1].kind = "header" /\ ss[2 * i - 1].folder = NonEmptyFolders[i]
                /\ ss[2 * i].kind = "table" /\ ss[2 * i].folder = NonEmptyFolders[i]

\* C6 amended: the tables of a finished document are one for each category
\* with photos, in the fixed order; with an organisation name given each
\* table is directly preceded by the header of its category, and without
\* one the document has no header; a category without photos contributes
\* nothing.
C6_SectionOrder ==
    /\ build.at = "saved" =>
         /\ TableFolders(build.doc) = NonEmptyFolders
         /\ saved[Output(build)].doc = build.doc
    /\ \A k \in Tables(build.doc) :
         /\ IsNonEmpty(build.doc[k].folder)
         /\ gbu_name # <<>> =>
              /\ k > 1
              /\ build.doc[k - 1].kind = "header"
              /\ build.doc[k - 1].folder = build.doc[k].folder
    /\ \A k \in 1..Len(build.doc) :
         build.doc[k].kind = "header" =>
            /\ gbu_name # <<>>
            /\ k < Len(build.doc)
            /\ build.doc[k + 1].kind = "table"
            /\ build.doc[k + 1].folder = build.doc[k].folder

\* a finished document for a root whose first and third category have no
\* photo: the sections of the second and the fourth, in this order
C6_Witness ==
    /\ build.at = "saved" /\ gbu_name # <<>>
    /\ ~IsNonEmpty(FOLDERS[1]) /\ ~IsNonEmpty(FOLDERS[3])
    /\ TableFolders(build.doc) = <<FOLDERS[2], FOLDERS[4]>>
    /\ Len(Sections(build.doc)) = 4

(***************************************************************************)
(* Missing and empty category folders                                      *)
(***************************************************************************)
\* the states of a folder without any image that differ from fs in existing
Counterparts(fs) ==
    {alt \in FolderStates : NPhotos(alt) = 0 /\ alt.exists # fs.exists}

\* the finished build of the same kind over another photo root
BuildOver(root) ==
    RunBuild(OpenDocument(build.left_only, gbu_name, app_number, template),
             root, gbu_name, flavour)

\* C7: a root in which a category folder is missing and the root in which
\* that folder exists without any image give the same document (elements,
\* tables, cell contents, cell calls) in both builds and the same rows of
\* the address list, and neither raises.
C7_MissingAsEmpty ==
    /\ template.table_grid => pc # "aborted"
    /\ \A f \in FolderSet :
         NPhotos(photo_root[f]) = 0 =>
            \A alt \in Counterparts(photo_root[f]) :
                LET twin == [photo_root EXCEPT ![f] = alt]
                IN /\ (pc = "prilozhenie" /\ build.at = "idle") =>
                         ap = FillApSheets(twin, flavour)
                   /\ build.at \in {"saved", "raised"} =>
                         LET other == BuildOver(twin)
                         IN /\ other.at = build.at
                            /\ other.doc = build.doc
                            /\ other.calls = build.calls

\* a finished build over a root with a missing folder, a folder holding only
\* other files, and two categories with photos
C7_Witness ==
    /\ build.at = "saved" /\ pc = "done"
    /\ photo_root[FOLDERS[1]] = MissingFolder
    /\ photo_root[FOLDERS[3]] = Folder(JunkTree)
    /\ TableFolders(build.doc) = <<FOLDERS[2], FOLDERS[4]>>
    /\ BuildOver([photo_root EXCEPT ![FOLDERS[1]] = Folder({})]).doc = build.doc
    /\ Len(ap[FOLDERS[2]]) > 0

(***************************************************************************)
(* Properties of the collectors                                            *)
(***************************************************************************)
\* the entries of S in increasing order of Less, a total order on S
RankedBy(S, Less(_, _)) ==
    [i \in 1..Cardinality(S) |->
        CHOOSE e \in S : Cardinality({x \in S : Less(x, e)}) = i - 1]

\* component by component, each component compared as a string, the
\* components lower-cased where the platform's paths ignore case
ComponentLess(e1, e2) ==
    PartsLess(CParts(e1.path, flavour), CParts(e2.path, flavour))

\* the whole path as one string, separators included
PathSeparator == IF flavour = "nt" THEN 92 ELSE SLASH
PathStringLess(e1, e2) ==
    StrLess(Join(e1.path, PathSeparator), Join(e2.path, PathSeparator))

PhotoEntries == {e \in tree : IsPhotoItem(e)}

\* the results of the two collectors list the photo entries in the order r
ListedInOrder(r) ==
    /\ cpc = "collected" =>
         /\ Len(photos) = Len(r)
         /\ \A i \in 1..Len(r) : photos[i].path = r[i].path
    /\ cpc = "got_files" =>
         /\ Len(files_info) = Len(r)
         /\ \A i \in 1..Len(r) :
              /\ files_info[i].filename = ItemName(r[i])
              /\ files_info[i].subfolder = ParentName(r[i], RootName)

\* C8 as stated: the collected photos are in the order of their full paths
\* compared as plain strings.
C8_SortedByPathString == ListedInOrder(RankedBy(PhotoEntries, PathStringLess))

\* C8 amended: the collected photos are in the order of their paths compared
\* component by component (each component as a string, lower-cased on a
\* platform whose paths ignore case), so that everything below a folder
\* comes before a sibling whose name extends the folder's name.
C8_SortedByComponents == ListedInOrder(RankedBy(PhotoEntries, ComponentLess))

\* the folder a with a/x.jpg, and a.jpg beside it: a/x.jpg comes first,
\* though "a.jpg" is the smaller string
C8_Witness ==
    /\ cpc = "collected" /\ Len(photos) = 2
    /\ photos[1].path = << <<97>>, <<120>> \o JPG >>
    /\ photos[2].path = << <<97>> \o JPG >>
    /\ StrLess(Join(photos[2].path, PathSeparator), Join(photos[1].path, PathSeparator))

\* jpg, jpeg, png, bmp, gif, tiff
PhotoExtensions ==
    { <<106, 112, 103>>, <<106, 112, 101, 103>>, <<112, 110, 103>>,
      <<98, 109, 112>>, <<103, 105, 102>>, <<116, 105, 102, 102>> }

\* the name is a non-empty stem, a dot, and one of the extensions in any case
HasPhotoExtension(n) ==
    \E x \in PhotoExtensions :
        /\ Len(n) > Len(x) + 1
        /\ n[Len(n) - Len(x)] = DOT
        /\ Lower(SubSeq(n, Len(n) - Len(x) + 1, Len(n))) = x

ExpectedFiles == {e \in tree : e.kind = "file" /\ HasPhotoExtension(ItemName(e))}

Occurrences(s, v) == Cardinality({i \in 1..Len(s) : s[i] = v})

FileInfoOf(e) == [filename |-> ItemName(e), subfolder |-> ParentName(e, RootName)]

\* C9: the result of either collector holds exactly the regular files, at any
\* depth, that have one of the six extensions in any case, each once; other
\* files and all folders are left out; for a folder that does not exist the
\* result is empty.
C9_CollectsExactlyPhotos ==
    /\ cpc = "collected" =>
         /\ Len(photos) = Cardinality(ExpectedFiles)
         /\ {photos[i].path : i \in 1..Len(photos)} = {e.path : e \in ExpectedFiles}
    /\ cpc = "got_files" =>
         /\ Len(files_info) = Cardinality(ExpectedFiles)
         /\ \A e \in ExpectedFiles :
              Occurrences(files_info, FileInfoOf(e))
                 = Cardinality({x \in ExpectedFiles : FileInfoOf(x) = FileInfoOf(e)})
    /\ (~root_exists /\ cpc \in {"collected", "got_files"}) =>
         photos = <<>> /\ files_info = <<>>

\* a tree with a folder named like a photo, a photo in it, and a photo with
\* an upper-case extension
C9_Witness ==
    /\ cpc = "collected" /\ Len(photos) = 2
    /\ \E e \in tree : e.kind = "dir" /\ HasPhotoExtension(ItemName(e))
    /\ \E i \in 1..2 : Len(photos[i].path) = 2
    /\ \E i \in 1..2 :
         LET n == photos[i].path[Len(photos[i].path)] IN Lower(n) # n

(***************************************************************************)
(* Properties of the address extractor                                     *)
(***************************************************************************)
\* s without one trailing parenthesised integer and the whitespace before it
StripSuffix(s) ==
    LET Opens == {q \in 1..(Len(s) - 2) :
                    /\ s[q] = LPAR
                    /\ s[Len(s)] = RPAR
                    /\ \A j \in (q + 1)..(Len(s) - 1) : IsDigit(s[j])}
    IN IF Opens = {} THEN s
       ELSE LET q == CHOOSE x \in Opens : TRUE
                Before == {k \in 0..(q - 1) : \A j \in (k + 1)..(q - 1) : IsSpace(s[j])}
                k == CHOOSE x \in Before : \A y \in Before : x <= y
            IN SubSeq(s, 1, k)

\* C10: the address in a caption is the base name without its trailing
\* parenthesised integer, every underscore replaced by a slash; it holds no
\* underscore; "12_34 (2)" gives "12/34".
C10_Address ==
    apc # "start" =>
        /\ address = [i \in 1..Len(StripSuffix(name)) |->
                        IF StripSuffix(name)[i] = USCORE THEN SLASH
                        ELSE StripSuffix(name)[i]]
        /\ \A i \in 1..Len(address) : address[i] # USCORE
        /\ name = <<49, 50, 95, 51, 52, 32, 40, 50, 41>>
              => address = <<49, 50, 47, 51, 52>>

C10_Witness ==
    /\ apc = "address"
    /\ name = <<49, 50, 95, 51, 52, 32, 40, 50, 41>>
    /\ address = <<49, 50, 47, 51, 52>>

(***************************************************************************)
(* Idempotence of the address extractor                                    *)
(***************************************************************************)
\* C11: the extractor applied to its own result gives that result again,
\* for every base name without a slash: address(address(name)) =
\* address(name), for _clean_address and for clean_name.
C11_Idempotent ==
    apc = "cleaned_again" =>
        /\ twice.address = address
        /\ twice.cleaned = cleaned

\* the result of the second application differs only when the first result
\* still ends in a parenthesised number
C11_IdempotentUnlessSuffixLeft ==
    apc = "cleaned_again" =>
        /\ twice.address # address => SubSuffix(address) # address
        /\ twice.cleaned # cleaned => SubSuffix(cleaned) # cleaned

(***************************************************************************)
(* The violation text of a caption                                         *)
(***************************************************************************)
\* the name of the directory a photo of a category lies in
ImmediateParent(path, folder) ==
    IF Len(path) = 1 THEN folder ELSE path[Len(path) - 1]

CatalogKeys == {e.key : e \in VIOLATION_MAP}

\* the captions written so far: the cells of kind Caption of all tables
CaptionsIn(k) ==
    LET t == build.doc[k]
    IN {x \in {[folder |-> t.folder, row |-> r, col |-> c, k |-> k] :
                  r \in 0..(t.rows - 1), c \in {0, 1}} :
           CellAt(t, x.row, x.col).kind = "Caption"}

CaptionsWritten == UNION {CaptionsIn(k) : k \in Tables(build.doc)}

CaptionOf(x) == CellAt(build.doc[x.k], x.row, x.col)

\* C12: the violation text of every caption is the catalog entry whose key
\* equals the whitespace-trimmed name of the directory the photo lies in,
\* and the constant fallback text when no key does, a photo directly in
\* the category folder included; every photo dealt with has its caption.
C12_ViolationLookup ==
    \A k \in Tables(build.doc) :
       LET caps == CaptionsIn(k)
           phs == TablePhotos(build.doc[k])
       IN /\ \A x \in caps :
                LET cap == CaptionOf(x)
                    parent == Strip(ImmediateParent(cap.path, x.folder))
                IN /\ parent \in CatalogKeys =>
                         \E e \in VIOLATION_MAP : e.key = parent /\ e.text = cap.violation
                   /\ parent \notin CatalogKeys => cap.violation = UnknownViolation
                   /\ Len(cap.path) = 1 => cap.violation = UnknownViolation
          /\ \A i \in 1..PhotosDone(k) :
                \E x \in caps : CaptionOf(x).path = phs[i].path

\* a saved document holds a caption with the text of the key "1. Teh", one
\* under the folder "1. Teh " with the same text, one under "1. Teh/x" with
\* the fallback text and one directly in the category folder with the
\* fallback text
C12_Witness ==
    /\ build.at = "saved"
    /\ \E x \in CaptionsWritten :
          /\ CaptionOf(x).path = PhotoFile(1).path
          /\ CaptionOf(x).violation = DictGet(VIOLATION_MAP, SubName, <<>>)
          /\ CaptionOf(x).violation # UnknownViolation
    /\ \E x \in CaptionsWritten :
          /\ CaptionOf(x).path = PhotoFile(5).path
          /\ CaptionOf(x).violation = DictGet(VIOLATION_MAP, SubName, <<>>)
    /\ \E x \in CaptionsWritten :
          /\ CaptionOf(x).path = PhotoFile(3).path
          /\ CaptionOf(x).violation = UnknownViolation
    /\ \E x \in CaptionsWritten :
          /\ CaptionOf(x).path = PhotoFile(2).path
          /\ CaptionOf(x).violation = UnknownViolation

(***************************************************************************)
(* A photo that does not decode                                            *)
(***************************************************************************)
\* the photo root with every file decodable
MadeDecodable(e) == [e EXCEPT !.ok = (e.kind = "file")]

AllDecodable(root) ==
    [f \in FolderSet |->
        [exists |-> root[f].exists,
         tree |-> {MadeDecodable(e) : e \in root[f].tree},
         listing |-> [i \in 1..Len(root[f].listing) |-> MadeDecodable(root[f].listing[i])]]]

Undecodable(folder, path) == ~Decodable(photo_root[folder].tree, path)

\* the cell is the one of the run without failures, or that run put a photo
\* there which does not decode in this run and the cell is as created
SameButFailedPhoto(folder, mine, clean) ==
    \/ mine = clean
    \/ /\ clean.kind = "Photo"
       /\ Undecodable(folder, clean.path)
       /\ mine = Unset

SameButFailedPhotos(doc, cleandoc) ==
    /\ Len(doc) = Len(cleandoc)
    /\ \A k \in 1..Len(doc) :
          IF doc[k].kind # "table" THEN doc[k] = cleandoc[k]
          ELSE /\ cleandoc[k].kind = "table"
               /\ doc[k].folder = cleandoc[k].folder
               /\ doc[k].rows = cleandoc[k].rows
               /\ \A r \in 0..(doc[k].rows - 1) : \A c \in {0, 1} :
                     SameButFailedPhoto(doc[k].folder, CellAt(doc[k], r, c),
                                        CellAt(cleandoc[k], r, c))

\* the running build is at a step it can take: the next folder, the next
\* iteration of _fill_table, its return, the save, or the start of the
\* second build
BuildCanStep ==
    \/ pc = "ustraneniya" /\ build.at = "saved"
    \/ /\ pc \in {"prilozhenie", "ustraneniya"}
       /\ InLoop(build) \/ Filling(build) \/ FillDone(build) \/ AtSave(build)

\* C13: a photo that fails to load or decode does not abort the build: the
\* failure is printed, the caption of that photo is written, the build can
\* always go on until the document is saved, and the saved document has
\* every call and every cell where the run over the same folders with all
\* photos decodable has them, but for the cells of the failed photos.
C13_DecodeFailureIsLocal ==
    /\ template.table_grid => (build.at # "raised" /\ pc # "aborted")
    /\ \A k \in Tables(build.doc) :
          LET t == build.doc[k]
              phs == TablePhotos(t)
              caps == CaptionsIn(k)
          IN \A i \in 1..PhotosDone(k) :
                Undecodable(t.folder, phs[i].path) =>
                   /\ phs[i].path \in Range(build.printed)
                   /\ \E x \in caps : CaptionOf(x).path = phs[i].path
    /\ (build.printed # <<>> /\ pc # "done") => BuildCanStep
    /\ build.at = "saved" =>
          LET clean == BuildOver(AllDecodable(photo_root))
          IN /\ clean.at = "saved"
             /\ clean.calls = build.calls
             /\ clean.printed = <<>>
             /\ SameButFailedPhotos(build.doc, clean.doc)
             /\ saved[Output(build)].doc = build.doc

\* both builds are done; the second photo of three of a category did not
\* decode: its cell is as created, its caption is below it, the third photo
\* and the photos of a later category are in their cells
C13_Witness ==
    /\ pc = "done" /\ build.at = "saved" /\ build.left_only
    /\ build.printed # <<>>
    /\ \E k1, k2 \in Tables(build.doc) :
          LET t == build.doc[k1]
              phs == TablePhotos(t)
              u == build.doc[k2]
          IN /\ k1 < k2
             /\ Len(phs) = 3
             /\ Undecodable(t.folder, phs[2].path)
             /\ CellAt(t, 2, 0) = Unset
             /\ CellAt(t, 3, 0).kind = "Caption" /\ CellAt(t, 3, 0).path = phs[2].path
             /\ CellAt(t, 4, 0) = PhotoCell(phs[3].path)
             /\ CellAt(u, 0, 0).kind = "Photo"
             /\ CellAt(u, 1, 0).kind = "Caption"
    /\ \E k \in Tables(saved["prilozhenie"].doc) :
          LET t == saved["prilozhenie"].doc[k]
          IN /\ t.rows = 4
             /\ CellAt(t, 0, 1) = Unset
             /\ CellAt(t, 1, 1).kind = "Caption"
             /\ CellAt(t, 2, 0).kind = "Photo"

(***************************************************************************)
(* Determinism                                                             *)
(***************************************************************************)
Reverse(ls) == [i \in 1..Len(ls) |-> ls[Len(ls) + 1 - i]]

Rotate(ls, j) == SubSeq(ls, j + 1, Len(ls)) \o SubSeq(ls, 1, j)

\* other orders in which the file system may enumerate the same entries
OtherOrders(ls) ==
    {Reverse(ls)} \cup {Rotate(ls, j) : j \in 1..(Len(ls) - 1)}
                  \cup {Reverse(Rotate(ls, j)) : j \in 1..(Len(ls) - 1)}

RotateHalf(ls) == Rotate(ls, Len(ls) \div 2)

ReverseRotated(ls) == IF ls = <<>> THEN ls ELSE Reverse(Rotate(ls, 1))

\* the same directory state, every category folder enumerated in another
\* order
Reenumerated(Order(_)) ==
    [f \in FolderSet |-> [photo_root[f] EXCEPT !.listing = Order(@)]]

ReenumeratedRoots ==
    {Reenumerated(Reverse), Reenumerated(RotateHalf), Reenumerated(ReverseRotated)}

\* the paths of the photos in the order the file system yields them
AsEnumerated(ls) ==
    LET items == SelectPhotos(ls) IN [i \in 1..Len(items) |-> items[i].path]

PathsOf(phs) == [i \in 1..Len(phs) |-> phs[i].path]

\* C14: the same directory state gives the same output whatever the order
\* in which the file system enumerates the entries: the same photo records
\* from both collectors, the same rows of the address list, and in both
\* builds the same document (headers, page breaks, tables, cells,
\* captions), the same cell calls and the same printed failures.
C14_Deterministic ==
    /\ pc = "fill_ap" =>
          \A f \in FolderSet : \A ls \in OtherOrders(photo_root[f].listing) :
             /\ CollectPhotos(f, ls, flavour) = FolderPhotos(photo_root, f, flavour)
             /\ GetAllFilesWithSubfolders(f, photo_root[f].exists, ls, flavour)
                  = GetAllFilesWithSubfolders(f, photo_root[f].exists,
                                              photo_root[f].listing, flavour)
    /\ (pc = "prilozhenie" /\ build.at = "idle") =>
          \A alt \in ReenumeratedRoots : ap = FillApSheets(alt, flavour)
    /\ build.at = "saved" =>
          \A alt \in ReenumeratedRoots :
             LET other == BuildOver(alt)
             IN /\ other.at = "saved"
                /\ other.doc = build.doc
                /\ other.calls = build.calls
                /\ other.printed = build.printed

\* both builds are done over two categories with photos, one of them with
\* three or more photos that the file system yields in an order that is
\* not the collected one, in this enumeration and in the reversed one
C14_Witness ==
    /\ pc = "done" /\ build.at = "saved"
    /\ Len(TableFolders(build.doc)) >= 2
    /\ \E f \in FolderSet :
          LET phs == FolderPhotos(photo_root, f, flavour)
          IN /\ Len(phs) >= 3
             /\ AsEnumerated(photo_root[f].listing) # PathsOf(phs)
             /\ AsEnumerated(Reverse(photo_root[f].listing)) # PathsOf(phs)
             /\ BuildOver(Reenumerated(Reverse)).doc = build.doc

(***************************************************************************)
(* Properties of the whole run                                             *)
(***************************************************************************)
\* C15: when the photo root, the templates folder or one of the three
\* templates is missing at the start, nothing is done: the operator is
\* asked neither for counts nor for the organisation's data, no file of
\* the working folder is created or modified and no step of the pipeline
\* runs; the run ends after the message.
C15_MissingPathsAbort ==
    ~(paths.photo_root /\ paths.templates_dir /\ paths.rt /\ paths.ap
        /\ paths.prilozhenie) =>
        /\ asked \subseteq {"exit_key"}
        /\ written = {}
        /\ steps = <<>> /\ counts = <<>>
        /\ mpc \in {"init", "returned"}
        /\ mpc = "returned" => "not_found" \in messages

\* only one template is missing, and the run has ended
C15_Witness ==
    /\ paths.photo_root /\ paths.templates_dir /\ paths.rt /\ paths.ap
    /\ ~paths.prilozhenie
    /\ mpc = "returned"
    /\ asked = {"exit_key"}
    /\ messages = {"not_found"}

\* C16: a failure raised in a step of the pipeline, other than a photo that
\* does not decode, ends the run: the step it was raised in is the last one
\* to run, and the operator is shown the error message.
C16_OnlyLocalRecovery ==
    /\ \A i \in 1..Len(steps) :
          steps[i].outcome \in {"raised", "recovered"} =>
             /\ i = Len(steps)
             /\ mpc \in {"handler", "exited"}
    /\ (mpc = "exited") => "critical_error" \in messages

(***************************************************************************)
(* The save of a build                                                     *)
(***************************************************************************)
BuildRunning == build.at \in {"loop", "fill", "raised"}

\* every category with photos has its table, with all its captions
AllCategoriesProcessed(doc) ==
    /\ TableFolders(doc) = NonEmptyFolders
    /\ \A k \in Tables(doc) :
          Cardinality({rc \in (0..(doc[k].rows - 1)) \X {0, 1} :
                          CellAt(doc[k], rc[1], rc[2]).kind = "Caption"})
             = Len(TablePhotos(doc[k]))

\* C17: a build writes its output file once, after all four categories
\* have been processed; while the build runs, and when it has raised,
\* nothing has been written to its output path.
C17_SavedOnceAtTheEnd ==
    /\ \A o \in DOMAIN saved : saved[o].writes <= 1
    /\ BuildRunning => saved[Output(build)] = NotSaved
    /\ pc = "aborted" => build.at = "raised" /\ saved[Output(build)] = NotSaved
    /\ \A o \in DOMAIN saved :
          saved[o].writes = 1 => AllCategoriesProcessed(saved[o].doc)
    /\ build.at = "saved" =>
          /\ build.fi > Len(FOLDERS)
          /\ saved[Output(build)] = [writes |-> 1, doc |-> build.doc]
    /\ pc = "done" => \A o \in DOMAIN saved : saved[o].writes = 1

\* the build raised at the third category, the first one with photos, from
\* a template without the table style: no output file has been written
C17_Witness ==
    /\ pc = "aborted" /\ build.at = "raised"
    /\ ~template.table_grid
    /\ build.fi = 3
    /\ NPhotos(photo_root[FOLDERS[3]]) > 0
    /\ \A o \in DOMAIN saved : saved[o] = NotSaved

(***************************************************************************)
(* The short name in the section headers.                                  *)
(***************************************************************************)
\* the opening guillemets of a name that have a closing one after them
QuoteOpens(g) ==
    {i \in 1..Len(g) : g[i] = LQUOTE /\ \E j \in (i + 1)..Len(g) : g[j] = RQUOTE}

\* the first quoted segment of a name: from its first such opening guillemet
\* to the nearest closing one
FirstQuoted(g) ==
    LET i == CHOOSE x \in QuoteOpens(g) : \A y \in QuoteOpens(g) : x <= y
        j == CHOOSE x \in (i + 1)..Len(g) :
                g[x] = RQUOTE /\ \A y \in (i + 1)..(x - 1) : g[y] # RQUOTE
    IN SubSeq(g, i, j)

HeaderTexts(doc) == {doc[k].text : k \in {x \in DOMAIN doc : doc[x].kind = "header"}}

DocsWithHeaders == {build.doc} \cup {saved[o].doc : o \in DOMAIN saved}

\* C18: the short name in every section header is the first quoted segment
\* of the supplied name, in its guillemets, and the supplied name unchanged
\* when the name has no quoted segment.
C18_ShortNameIsFirstQuoted ==
    \A doc \in DocsWithHeaders : \A t \in HeaderTexts(doc) :
        t = IF QuoteOpens(gbu_name) = {} THEN gbu_name ELSE FirstQuoted(gbu_name)

\* the same for the names whose first quoted segment holds some text on
\* one line
C18_ShortNameIsFirstQuotedWithText ==
    \A doc \in DocsWithHeaders : \A t \in HeaderTexts(doc) :
        \/ QuoteOpens(gbu_name) = {} /\ t = gbu_name
        \/ /\ QuoteOpens(gbu_name) # {}
           /\ \/ Len(FirstQuoted(gbu_name)) = 2
              \/ \E i \in 1..Len(FirstQuoted(gbu_name)) : FirstQuoted(gbu_name)[i] = LF
              \/ t = FirstQuoted(gbu_name)

\* headers written from a name with a quoted segment, and from one without
C18_WitnessQuoted ==
    /\ build.at = "saved"
    /\ HeaderTexts(build.doc) # {}
    /\ QuoteOpens(gbu_name) # {} /\ Len(FirstQuoted(gbu_name)) > 2
    /\ gbu_name # FirstQuoted(gbu_name)

C18_WitnessUnquoted ==
    /\ build.at = "saved"
    /\ HeaderTexts(build.doc) # {}
    /\ QuoteOpens(gbu_name) = {}

(***************************************************************************)
(* The count prompts.                                                      *)
(***************************************************************************)
\* decimal digits, with single underscores between digits
DecimalText(s) ==
    /\ s # <<>>
    /\ \A i \in 1..Len(s) :
          \/ s[i] \in 48..57
          \/ /\ s[i] = USCORE /\ 1 < i /\ i < Len(s)
             /\ s[i - 1] \in 48..57 /\ s[i + 1] \in 48..57

\* an integer as Python reads it: spaces around an optional sign and a
\* decimal text
IntegerText(e) ==
    \E a \in 0..Len(e) : \E b \in a..Len(e) :
        /\ \A i \in (1..a) \cup ((b + 1)..Len(e)) : e[i] = SP
        /\ \/ DecimalText(SubSeq(e, a + 1, b))
           \/ /\ a < b /\ e[a + 1] \in {43, 45}
              /\ DecimalText(SubSeq(e, a + 2, b))

\* its value: the digits from the left, negated after a minus sign
RECURSIVE DigitsFrom(_, _)
DigitsFrom(e, acc) ==
    IF e = <<>> THEN acc
    ELSE DigitsFrom(Tail(e), IF Head(e) \in 48..57 THEN 10 * acc + Head(e) - 48 ELSE acc)

IntegerValue(e) ==
    IF \E i \in 1..Len(e) : e[i] = 45 THEN 0 - DigitsFrom(e, 0) ELSE DigitsFrom(e, 0)

Asking == mpc = "collect_user_counts"

\* one step while the counts are asked for: an entry that is no integer
\* leaves the counts as they were, shows the request for a number and asks
\* again; an integer becomes the count of the key asked for; after the
\* eighth count collect_user_counts returns
CountPromptStep ==
    Asking =>
        \/ /\ Len(counts) = Len(CountKeys)
           /\ mpc' = "fill_counts" /\ counts' = counts
        \/ /\ Len(counts) < Len(CountKeys)
           /\ Asking'
           /\ IF IntegerText(entry')
              THEN counts' = Append(counts, IntegerValue(entry'))
              ELSE counts' = counts /\ "enter_number" \in messages'

\* the dictionary collect_user_counts returned
CountsReturned ==
    mpc \notin {"off", "init", "report_data", "copy_templates", "collect_user_counts",
                "returned", "handler", "exited"}

\* C19: an entry that is no integer is never fatal: get_int_input asks
\* again after it and neither raises nor returns on it; it returns the first
\* integer entered, and it returns whenever an integer is entered in the
\* end; collect_user_counts returns an integer for each of the eight keys.
C19_MalformedInputReprompts ==
    /\ [][CountPromptStep]_vars
    /\ [](CountsReturned =>
            /\ Len(counts) = Len(CountKeys)
            /\ \A i \in 1..Len(counts) : counts[i] \in Int)
    /\ \A k \in 0..(Len(CountKeys) - 1) :
          (Asking /\ Len(counts) = k) ~> (Asking /\ Len(counts) = k + 1)
    /\ Asking ~> (mpc = "fill_counts")

\* collect_user_counts has returned eight counts, the last one entered as
\* " -3 ", after an entry that was no integer
C19_Witness ==
    /\ mpc = "fill_counts"
    /\ Len(counts) = Len(CountKeys)
    /\ "enter_number" \in messages
    /\ entry = <<32, 45, 51, 32>> /\ counts[Len(counts)] = 0 - 3
    /\ counts[1] = 10

(***************************************************************************)
(* The cells of a table and the calls made on them.                        *)
(***************************************************************************)
\* the calls of the running build on one cell of the table of a folder
CallsAt(folder, row, col) ==
    {j \in 1..Len(build.calls) :
        /\ build.calls[j].folder = folder
        /\ build.calls[j].call.row = row /\ build.calls[j].call.col = col}

\* the rows of table k that _fill_table has dealt with
RowsDone(k) ==
    IF build.left_only THEN 2 * PhotosDone(k) ELSE 2 * ((PhotosDone(k) + 1) \div 2)

CellsOf(k) == (0..(build.doc[k].rows - 1)) \X {0, 1}

\* every call names a cell of the table of its folder
CallsInsideTable ==
    \A j \in 1..Len(build.calls) :
        \E k \in Tables(build.doc) :
            /\ build.doc[k].folder = build.calls[j].folder
            /\ <<build.calls[j].call.row, build.calls[j].call.col>> \in CellsOf(k)

\* the call on the cell is _insert_photo with a file that does not decode
FailedPhoto(folder, c) ==
    c.op = "insert_photo" /\ Undecodable(folder, c.info.path)

\* one call on every cell of the rows dealt with, none on the rows to come,
\* and Set(cell, call) for every cell with its call
EveryCellCalledOnce(Set(_, _, _)) ==
    \A k \in Tables(build.doc) :
        LET t == build.doc[k]
            done == RowsDone(k)
        IN /\ done <= t.rows
           /\ ~BeingFilled(k) => done = t.rows
           /\ \A rc \in CellsOf(k) :
                 LET at == CallsAt(t.folder, rc[1], rc[2])
                 IN IF rc[1] < done
                    THEN /\ Cardinality(at) = 1
                         /\ \A j \in at :
                               Set(t.folder, CellAt(t, rc[1], rc[2]), build.calls[j].call)
                    ELSE at = {}

IsSet(folder, cell, c) == cell.kind # "Unset"

IsSetUnlessFailed(folder, cell, c) == cell.kind = "Unset" <=> FailedPhoto(folder, c)

\* C20: every call of _fill_table names a row below the allocated row count
\* and column 0 or 1, and every cell of the table gets exactly one call, so
\* that no cell is left unset and none is written twice.
C20_EveryCellWrittenOnce ==
    CallsInsideTable /\ EveryCellCalledOnce(IsSet)

\* the same, but the cell of a photo that does not decode stays as created:
\* a cell that got its call is unset exactly when that call was
\* _insert_photo with such a file
C20_EveryCellCalledOnceSetUnlessFailed ==
    CallsInsideTable /\ EveryCellCalledOnce(IsSetUnlessFailed)

\* the cell got a call of _insert_photo with a file that does not decode
FailedPhotoCell(k, rc) ==
    \E j \in CallsAt(build.doc[k].folder, rc[1], rc[2]) :
        FailedPhoto(build.doc[k].folder, build.calls[j].call)

\* a saved document with a table of an odd number of photos, three or more,
\* one of which did not decode
C20_Witness ==
    /\ build.at = "saved"
    /\ \E k \in Tables(build.doc) :
          /\ Len(TablePhotos(build.doc[k])) >= 3
          /\ Len(TablePhotos(build.doc[k])) % 2 = 1
          /\ \E rc \in CellsOf(k) : FailedPhotoCell(k, rc)
          /\ \E rc \in CellsOf(k) : CellAt(build.doc[k], rc[1], rc[2]).kind = "Photo"
          /\ \E rc \in CellsOf(k) : CellAt(build.doc[k], rc[1], rc[2]) = Empty

(***************************************************************************)
(* The folder counts of the calculation workbook.                          *)
(***************************************************************************)
\* the category folder a sheet belongs to: "1. DT" for DT, and so on
CategoryOfSheet(sheet) ==
    IF sheet = "DT" THEN FOLDERS[1] ELSE IF sheet = "MKD" THEN FOLDERS[2]
    ELSE IF sheet = "ODH" THEN FOLDERS[3] ELSE FOLDERS[4]

\* the folders of a name below the photo root, and those of them in the
\* category folder of a sheet
FoldersNamed(folder_name) == {e \in disk : IsTarget(e, folder_name)}

OwnFolders(m) ==
    {e \in FoldersNamed(m.folder_name) : Below(e.path, <<CategoryOfSheet(m.sheet)>>)}

ImagesBelow(d) == {e \in disk : Below(e.path, d) /\ e.kind = "file"
                                 /\ Lower(Suffix(ItemName(e))) \in EXTENSIONS}

Counted(i) == fpc = "saved" \/ (fpc = "count" /\ rt.at > i)

\* C21: the value written for folder name F of sheet S is the number of
\* image files below the folder F of the category folder of S; a folder of
\* that name elsewhere below the photo root never determines it, and with
\* no such folder in the category nothing is counted.
C21_CountsOwnCategory ==
    \A i \in 1..Len(SHEET_CELL_MAP) :
        (Counted(i) /\ SHEET_CELL_MAP[i].sheet \in rt.sheets) =>
            IF OwnFolders(SHEET_CELL_MAP[i]) = {}
            THEN rt.cells[i] \in {NotWritten, Written(0)}
            ELSE \E d \in OwnFolders(SHEET_CELL_MAP[i]) :
                    rt.cells[i] = Written(Cardinality(ImagesBelow(d.path)))

\* the same where every folder of the name lies in the category folder of
\* the sheet
C21_CountsOwnCategoryIfNoneElsewhere ==
    \A i \in 1..Len(SHEET_CELL_MAP) :
        (/\ Counted(i) /\ SHEET_CELL_MAP[i].sheet \in rt.sheets
         /\ FoldersNamed(SHEET_CELL_MAP[i].folder_name) = OwnFolders(SHEET_CELL_MAP[i])) =>
            IF OwnFolders(SHEET_CELL_MAP[i]) = {}
            THEN rt.cells[i] = NotWritten
            ELSE \E d \in OwnFolders(SHEET_CELL_MAP[i]) :
                    rt.cells[i] = Written(Cardinality(ImagesBelow(d.path)))

\* a sheet without the workbook's sheet gets nothing written
C21_MissingSheetUntouched ==
    \A i \in 1..Len(SHEET_CELL_MAP) :
        SHEET_CELL_MAP[i].sheet \notin rt.sheets => rt.cells[i] = NotWritten

\* the workbook is saved with the two photos of "2. MKD/1. Teh" counted
C21_WitnessOwn ==
    /\ fpc = "saved"
    /\ rt.cells[2] = Written(2)
    /\ Cardinality(FoldersNamed(SHEET_CELL_MAP[2].folder_name)) = 2

\* the workbook is saved with the photo of "1. DT/1. Teh" counted on the
\* sheet MKD, although "2. MKD/1. Teh" holds two
C21_WitnessElsewhere ==
    /\ fpc = "saved"
    /\ rt.cells[2] = Written(1)
    /\ \E d \in OwnFolders(SHEET_CELL_MAP[2]) : Cardinality(ImagesBelow(d.path)) = 2

(***************************************************************************)
(* The address list and the documents.                                     *)
(***************************************************************************)
\* the caption of the photo at position i (from 0) of a table of output o
CaptionOfPhoto(o, t, i) ==
    IF o = "ustraneniya" THEN CellAt(t, 2 * i + 1, 0)
    ELSE CellAt(t, 2 * (i \div 2) + 1, i % 2)

\* the rows of a sheet of the address list and the captions of the
\* category's table in a saved document, position by position: there are
\* as many, the rows are ROW_START, ROW_START + 1, ..., and Agree(row,
\* caption) holds for each pair
RowsAndCaptions(Agree(_, _)) ==
    \A o \in DOMAIN saved : saved[o].writes = 1 =>
        \A f \in FolderSet :
            LET doc == saved[o].doc
                tables == {k \in 1..Len(doc) : doc[k].kind = "table" /\ doc[k].folder = f}
                n == Len(ap[f])
            IN IF n = 0 THEN tables = {}
               ELSE /\ Cardinality(tables) = 1
                    /\ \A k \in tables :
                          /\ doc[k].rows = IF o = "ustraneniya" THEN 2 * n
                                           ELSE 2 * ((n + 1) \div 2)
                          /\ \A i \in 0..(n - 1) :
                                /\ ap[f][i + 1].row = ROW_START + i
                                /\ CaptionOfPhoto(o, doc[k], i).kind = "Caption"
                                /\ Agree(ap[f][i + 1], CaptionOfPhoto(o, doc[k], i))

SamePair(row, caption) ==
    row.name = caption.address /\ row.subfolder = caption.subfolder

SamePairButSpaces(row, caption) ==
    row.name = Strip(caption.address) /\ Strip(row.subfolder) = caption.subfolder

\* C22: for every category the (address, subfolder) pairs that fill_ap
\* writes into the rows from ROW_START on, one row per photo, are, position
\* by position, the (address, subfolder) pairs of the captions of the
\* category's table.
C22_AddressListAgreesWithCaptions == RowsAndCaptions(SamePair)

\* the same up to white space at the ends: the address list has the
\* address stripped, the caption has the subfolder stripped
C22_AgreesButSpaces == RowsAndCaptions(SamePairButSpaces)

\* both documents are saved, with a photo from the folder "1. Teh "
C22_Witness ==
    /\ pc = "done"
    /\ \E f \in FolderSet : \E i \in 1..Len(ap[f]) : ap[f][i].subfolder = SubNameSpaced

(***************************************************************************)
(* The removal of empty folders.                                           *)
(***************************************************************************)
\* the folders of a tree with no file at any depth below them
FoldersWithoutFiles(t) ==
    {d \in t : d.kind = "dir" /\ \A e \in t : Below(e.path, d.path) => e.kind = "dir"}

\* C23: remove_empty_folders removes exactly the folders below the root
\* that hold no file at any depth, whole chains of them in one call; it
\* removes no file, no folder that holds a file and not the root, and it
\* returns the number of folders it removed.
C23_RemovesExactlyEmptyFolders ==
    /\ fpc = "loop" =>
          /\ yielded \ FoldersWithoutFiles(yielded) \subseteq disk
          /\ disk \subseteq yielded
          /\ removed_count = Cardinality(yielded \ disk)
          /\ \A e \in yielded : Len(e.path) >= 1
    /\ fpc = "returned" =>
          /\ disk = yielded \ FoldersWithoutFiles(yielded)
          /\ removed_count = Cardinality(FoldersWithoutFiles(yielded))

\* the call has returned 4: the chain a, a/b, a/b/c and the folder d/e are
\* gone, d with its photo and h.txt are still there
C23_Witness ==
    /\ fpc = "returned" /\ removed_count = 4
    /\ Dir(<< <<97>>, <<98>>, <<99>> >>) \in yielded
    /\ disk = { Dir(<< <<100>> >>), File(<< <<100>>, <<112>> \o JPG >>),
                File(<< <<104, 46, 116, 120, 116>> >>) }

====
